---- MODULE Spec2Model ----
(***************************************************************************)
(* Animation playback (AnimationController), priority arbitration          *)
(* (AnimationStateMachine) and the scene stack (SceneManager) of the 2d    *)
(* game engine.                                                            *)
(*                                                                         *)
(* Time is counted in integer units of the stepping epsilon (1e-6 s), so    *)
(* the comparison `current_frame_time + epsilon < frame_duration` of the    *)
(* stepping loop is modelled exactly; float rounding is outside the model.  *)
(***************************************************************************)
EXTENDS Integers, Sequences, FiniteSets, TLC

VARIABLES
    animations,           \* TextureAtlas::animations: name -> AnimationData
    current_anim,         \* AnimationController: pointer into the atlas, or Null
    current_anim_name,
    current_frame_index,
    current_frame_time,
    playback_speed,
    playing,
    paused,
    finished,
    states,               \* AnimationStateMachine: name -> priority
    transitions,          \* registered edges, in registration order
    current_state_name,
    pending_state_name,
    sceneStack,           \* SceneManager: the scenes, bottom first
    pendingScene,         \* the scene handed to changeScene / pushScene
    pendingOperation,     \* what the fade performs when it has faded out
    transitionState,
    currentTransition,
    transitionProgress,
    lifecycleLog          \* per scene made: the lifecycle calls it received

ctl_vars == <<current_anim, current_anim_name, current_frame_index,
              current_frame_time, playback_speed, playing, paused, finished>>
sm_vars == <<states, transitions, current_state_name, pending_state_name>>
scene_vars == <<sceneStack, pendingScene, pendingOperation, transitionState,
                currentTransition, transitionProgress, lifecycleLog>>
vars == <<animations, ctl_vars, sm_vars, scene_vars>>

----------------------------------------------------------------------------
(* Bounds of the model *)

MaxFrames == 3          \* frames per animation: 1..MaxFrames
MaxTime == 6            \* |current_frame_time| kept by the model after a call
MaxTransitions == 2     \* registered edges

(* Program constants *)

epsilon == 1            \* 1e-6 s, the unit of time of the model
max_steps == 2048

Null == "nullptr"
Empty == ""

AnimNames == {"idle", "attack"}
PlayNames == AnimNames \cup {"missing"}

Durations == {0, 1, 3}
OverrideDurations == {-1, 2}

Speeds == {-1, 1, 2}

(* update(dt) inputs: fractions and multiples of the frame durations *)
DTs == {0, 1, 2, 3, 6}

(* update(dt) inputs of SpecStall: a frame, and stalls of max_steps and of  *)
(* max_steps + 1 frames of duration 3                                      *)
StallDTs == {0, 3, max_steps * 3, (max_steps + 1) * 3}

SeqsUpTo(S, n) == UNION {[1..k -> S] : k \in 0..n}

AnimationData ==
    UNION {[frame_count : {n}, frame_duration : Durations,
            frame_durations : SeqsUpTo(OverrideDurations, n),
            loop : BOOLEAN] : n \in 1..MaxFrames}

(* The second animation of the atlas: one frame, played once *)
AttackData ==
    [frame_count |-> 1, frame_duration |-> 3, frame_durations |-> <<>>,
     loop |-> FALSE]

----------------------------------------------------------------------------
(* AnimationData and TextureAtlas *)

(* get_duration that ignores the per-frame overrides *)
get_duration_default_only(anim, frame_index) ==
    anim.frame_duration

get_duration(anim, frame_index) ==
    IF anim.frame_durations # <<>> /\ frame_index < Len(anim.frame_durations)
    THEN anim.frame_durations[frame_index + 1]
    ELSE anim.frame_duration

(* A loop none of whose frames has a positive duration: every update()     *)
(* of it runs the stepping loop to its cap.                               *)
NonPositiveLoop(anim) ==
    /\ anim.loop
    /\ \A i \in 0..(anim.frame_count - 1) : get_duration(anim, i) <= 0

PlayableData == {a \in AnimationData : ~NonPositiveLoop(a)}

StallData == {a \in AnimationData : a.frame_durations \in {<<>>, <<-1>>}}

get_animation(name) ==
    IF name \in DOMAIN animations THEN name ELSE Null

----------------------------------------------------------------------------
(* AnimationController, as functions of the playback state c *)

Ctl ==
    [current_anim |-> current_anim, current_anim_name |-> current_anim_name,
     current_frame_index |-> current_frame_index,
     current_frame_time |-> current_frame_time,
     playback_speed |-> playback_speed,
     playing |-> playing, paused |-> paused, finished |-> finished]

NewController ==
    [current_anim |-> Null, current_anim_name |-> Empty,
     current_frame_index |-> 0, current_frame_time |-> 0,
     playback_speed |-> 1,
     playing |-> FALSE, paused |-> FALSE, finished |-> FALSE]

get_frame_count(c) ==
    IF c.current_anim # Null THEN animations[c.current_anim].frame_count ELSE 0

(* stop() that leaves finished clear, as at construction *)
stop_not_finished(c) ==
    [c EXCEPT !.playing = FALSE, !.paused = FALSE, !.finished = FALSE,
              !.current_anim = Null, !.current_anim_name = Empty,
              !.current_frame_index = 0, !.current_frame_time = 0]

(* stop() that leaves the playback position where it was *)
stop_keeps_position(c) ==
    [c EXCEPT !.playing = FALSE, !.paused = FALSE, !.finished = TRUE,
              !.current_anim = Null, !.current_anim_name = Empty]

stop(c) ==
    [c EXCEPT !.playing = FALSE, !.paused = FALSE, !.finished = TRUE,
              !.current_anim = Null, !.current_anim_name = Empty,
              !.current_frame_index = 0, !.current_frame_time = 0]

(* play() that ignores a name the atlas does not hold *)
play_ignores_miss(c, animation_name, restart) ==
    LET anim == get_animation(animation_name)
        previous_anim == c.current_anim
    IN  IF anim = Null THEN c
        ELSE IF previous_anim = anim /\ c.playing /\ ~restart THEN c
        ELSE LET rewind == restart \/ previous_anim # anim
             IN  [c EXCEPT !.current_anim = anim,
                           !.current_anim_name = animation_name,
                           !.current_frame_index = IF rewind THEN 0 ELSE @,
                           !.current_frame_time = IF rewind THEN 0 ELSE @,
                           !.playing = TRUE, !.paused = FALSE,
                           !.finished = FALSE]

(* play() without the early return for the animation already playing *)
play_without_return(c, animation_name, restart) ==
    LET anim == get_animation(animation_name)
        previous_anim == c.current_anim
    IN  IF anim = Null THEN stop(c)
        ELSE LET rewind == restart \/ previous_anim # anim
             IN  [c EXCEPT !.current_anim = anim,
                           !.current_anim_name = animation_name,
                           !.current_frame_index = IF rewind THEN 0 ELSE @,
                           !.current_frame_time = IF rewind THEN 0 ELSE @,
                           !.playing = TRUE, !.paused = FALSE,
                           !.finished = FALSE]

(* play() that rewinds only on restart, not on a change of animation *)
play_rewinds_on_restart_only(c, animation_name, restart) ==
    LET anim == get_animation(animation_name)
        previous_anim == c.current_anim
    IN  IF anim = Null THEN stop(c)
        ELSE IF previous_anim = anim /\ c.playing /\ ~restart THEN c
        ELSE [c EXCEPT !.current_anim = anim,
                       !.current_anim_name = animation_name,
                       !.current_frame_index = IF restart THEN 0 ELSE @,
                       !.current_frame_time = IF restart THEN 0 ELSE @,
                       !.playing = TRUE, !.paused = FALSE,
                       !.finished = FALSE]

(* play() whose early return also asks that the controller is not paused *)
play_resumes_paused(c, animation_name, restart) ==
    LET anim == get_animation(animation_name)
        previous_anim == c.current_anim
    IN  IF anim = Null THEN stop(c)
        ELSE IF previous_anim = anim /\ c.playing /\ ~c.paused /\ ~restart
        THEN c
        ELSE LET rewind == restart \/ previous_anim # anim
             IN  [c EXCEPT !.current_anim = anim,
                           !.current_anim_name = animation_name,
                           !.current_frame_index = IF rewind THEN 0 ELSE @,
                           !.current_frame_time = IF rewind THEN 0 ELSE @,
                           !.playing = TRUE, !.paused = FALSE,
                           !.finished = FALSE]

play(c, animation_name, restart) ==
    LET anim == get_animation(animation_name)
        previous_anim == c.current_anim
    IN  IF anim = Null THEN stop(c)
        ELSE IF previous_anim = anim /\ c.playing /\ ~restart THEN c
        ELSE LET rewind == restart \/ previous_anim # anim
             IN  [c EXCEPT !.current_anim = anim,
                           !.current_anim_name = animation_name,
                           !.current_frame_index = IF rewind THEN 0 ELSE @,
                           !.current_frame_time = IF rewind THEN 0 ELSE @,
                           !.playing = TRUE, !.paused = FALSE,
                           !.finished = FALSE]

(* pause() without the test of playing *)
pause_unconditional(c) == [c EXCEPT !.paused = TRUE]

pause(c) == IF c.playing THEN [c EXCEPT !.paused = TRUE] ELSE c

resume(c) == IF c.playing THEN [c EXCEPT !.paused = FALSE] ELSE c

(* reset() that also sets playing *)
reset_restarts(c) ==
    [c EXCEPT !.current_frame_index = 0, !.current_frame_time = 0,
              !.finished = FALSE, !.playing = TRUE]

reset(c) ==
    [c EXCEPT !.current_frame_index = 0, !.current_frame_time = 0,
              !.finished = FALSE]

set_speed(c, speed) == [c EXCEPT !.playback_speed = speed]

get_current_frame_duration(c) ==
    IF c.current_anim = Null THEN 0
    ELSE get_duration(animations[c.current_anim], c.current_frame_index)

(* advance_frame() testing the end with > instead of >= *)
advance_frame_off_by_one(c) ==
    IF c.current_anim = Null THEN c
    ELSE LET anim == animations[c.current_anim]
             next == c.current_frame_index + 1
         IN  IF next > anim.frame_count
             THEN IF anim.loop
                  THEN [c EXCEPT !.current_frame_index = 0]
                  ELSE [c EXCEPT !.current_frame_index = anim.frame_count - 1,
                                 !.playing = FALSE, !.finished = TRUE]
             ELSE [c EXCEPT !.current_frame_index = next]

(* advance_frame() that marks the end without clearing playing *)
advance_frame_keeps_playing(c) ==
    IF c.current_anim = Null THEN c
    ELSE LET anim == animations[c.current_anim]
             next == c.current_frame_index + 1
         IN  IF next >= anim.frame_count
             THEN IF anim.loop
                  THEN [c EXCEPT !.current_frame_index = 0]
                  ELSE [c EXCEPT !.current_frame_index = anim.frame_count - 1,
                                 !.finished = TRUE]
             ELSE [c EXCEPT !.current_frame_index = next]

advance_frame(c) ==
    IF c.current_anim = Null THEN c
    ELSE LET anim == animations[c.current_anim]
             next == c.current_frame_index + 1
         IN  IF next >= anim.frame_count
             THEN IF anim.loop
                  THEN [c EXCEPT !.current_frame_index = 0]
                  ELSE [c EXCEPT !.current_frame_index = anim.frame_count - 1,
                                 !.playing = FALSE, !.finished = TRUE]
             ELSE [c EXCEPT !.current_frame_index = next]

(* Invocations of the three callbacks, counted for a controller on which  *)
(* all three are set, and the indices passed to on_frame_change, in order: *)
(* s.fired of the loop state collects them over one update()               *)
NoCallbacks ==
    [on_animation_end |-> 0, on_animation_loop |-> 0, on_frame_change |-> 0,
     on_frame_change_index |-> <<>>]

add_callbacks(a, b) ==
    [on_animation_end |-> a.on_animation_end + b.on_animation_end,
     on_animation_loop |-> a.on_animation_loop + b.on_animation_loop,
     on_frame_change |-> a.on_frame_change + b.on_frame_change,
     on_frame_change_index |->
         a.on_frame_change_index \o b.on_frame_change_index]

(* advance_frame() invoking on_animation_loop at every advance of a loop *)
advance_frame_callbacks_loop_each(c) ==
    IF c.current_anim = Null THEN NoCallbacks
    ELSE LET anim == animations[c.current_anim]
             previous_frame == c.current_frame_index
             next == c.current_frame_index + 1
         IN  IF next >= anim.frame_count
             THEN IF anim.loop
                  THEN [NoCallbacks EXCEPT
                           !.on_animation_loop = 1,
                           !.on_frame_change =
                               IF 0 # previous_frame THEN 1 ELSE 0,
                           !.on_frame_change_index =
                               IF 0 # previous_frame THEN <<0>> ELSE <<>>]
                  ELSE [NoCallbacks EXCEPT !.on_animation_end = 1]
             ELSE [NoCallbacks EXCEPT
                      !.on_animation_loop = IF anim.loop THEN 1 ELSE 0,
                      !.on_frame_change = 1,
                      !.on_frame_change_index = <<next>>]

(* advance_frame() invoking on_frame_change without comparing the index   *)
(* with the previous one                                                   *)
advance_frame_callbacks_unconditional(c) ==
    IF c.current_anim = Null THEN NoCallbacks
    ELSE LET anim == animations[c.current_anim]
             next == c.current_frame_index + 1
         IN  IF next >= anim.frame_count
             THEN IF anim.loop
                  THEN [NoCallbacks EXCEPT
                           !.on_animation_loop = 1,
                           !.on_frame_change = 1,
                           !.on_frame_change_index = <<0>>]
                  ELSE [NoCallbacks EXCEPT !.on_animation_end = 1]
             ELSE [NoCallbacks EXCEPT
                      !.on_frame_change = 1,
                      !.on_frame_change_index = <<next>>]

(* The callbacks one advance_frame() invokes from playback state c *)
advance_frame_callbacks(c) ==
    IF c.current_anim = Null THEN NoCallbacks
    ELSE LET anim == animations[c.current_anim]
             previous_frame == c.current_frame_index
             next == c.current_frame_index + 1
         IN  IF next >= anim.frame_count
             THEN IF anim.loop
                  THEN [NoCallbacks EXCEPT
                           !.on_animation_loop = 1,
                           !.on_frame_change =
                               IF 0 # previous_frame THEN 1 ELSE 0,
                           !.on_frame_change_index =
                               IF 0 # previous_frame THEN <<0>> ELSE <<>>]
                  ELSE [NoCallbacks EXCEPT !.on_animation_end = 1]
             ELSE [NoCallbacks EXCEPT
                      !.on_frame_change = 1,
                      !.on_frame_change_index = <<next>>]

(* The loop pass whose test is the step cap alone, not playing *)
update_step_ignores_playing(s) ==
    IF s.done THEN s
    ELSE IF ~(s.safety < max_steps)
    THEN [s EXCEPT !.done = TRUE]
    ELSE IF s.frame_duration <= 0
    THEN LET c2 == advance_frame(s.c)
         IN  [c |-> c2, frame_duration |-> get_current_frame_duration(c2),
              safety |-> s.safety + 1, done |-> FALSE,
              fired |-> add_callbacks(s.fired, advance_frame_callbacks(s.c))]
    ELSE IF s.c.current_frame_time + epsilon < s.frame_duration
    THEN [s EXCEPT !.done = TRUE]
    ELSE LET c2 == advance_frame(
                     [s.c EXCEPT !.current_frame_time = @ - s.frame_duration])
         IN  [c |-> c2, frame_duration |-> get_current_frame_duration(c2),
              safety |-> s.safety + 1, done |-> FALSE,
              fired |-> add_callbacks(s.fired, advance_frame_callbacks(s.c))]

(* The loop pass without ++safety on a non-positive duration *)
update_step_uncounted(s) ==
    IF s.done THEN s
    ELSE IF ~(s.c.playing /\ s.safety < max_steps)
    THEN [s EXCEPT !.done = TRUE]
    ELSE IF s.frame_duration <= 0
    THEN LET c2 == advance_frame(s.c)
         IN  [c |-> c2, frame_duration |-> get_current_frame_duration(c2),
              safety |-> s.safety, done |-> FALSE,
              fired |-> add_callbacks(s.fired, advance_frame_callbacks(s.c))]
    ELSE IF s.c.current_frame_time + epsilon < s.frame_duration
    THEN [s EXCEPT !.done = TRUE]
    ELSE LET c2 == advance_frame(
                     [s.c EXCEPT !.current_frame_time = @ - s.frame_duration])
         IN  [c |-> c2, frame_duration |-> get_current_frame_duration(c2),
              safety |-> s.safety + 1, done |-> FALSE,
              fired |-> add_callbacks(s.fired, advance_frame_callbacks(s.c))]

(* The loop pass as a do-while: the first pass advances before any test   *)
(* of the elapsed time                                                     *)
update_step_eager(s) ==
    IF s.done THEN s
    ELSE IF ~(s.c.playing /\ s.safety < max_steps)
    THEN [s EXCEPT !.done = TRUE]
    ELSE IF s.frame_duration <= 0
    THEN LET c2 == advance_frame(s.c)
         IN  [c |-> c2, frame_duration |-> get_current_frame_duration(c2),
              safety |-> s.safety + 1, done |-> FALSE,
              fired |-> add_callbacks(s.fired, advance_frame_callbacks(s.c))]
    ELSE IF s.safety > 0 /\ s.c.current_frame_time + epsilon < s.frame_duration
    THEN [s EXCEPT !.done = TRUE]
    ELSE LET c2 == advance_frame(
                     [s.c EXCEPT !.current_frame_time = @ - s.frame_duration])
         IN  [c |-> c2, frame_duration |-> get_current_frame_duration(c2),
              safety |-> s.safety + 1, done |-> FALSE,
              fired |-> add_callbacks(s.fired, advance_frame_callbacks(s.c))]

(* The pass of the loop that starts the next frame at time 0 *)
update_step_drops_remainder(s) ==
    IF s.done THEN s
    ELSE IF ~(s.c.playing /\ s.safety < max_steps)
    THEN [s EXCEPT !.done = TRUE]
    ELSE IF s.frame_duration <= 0
    THEN LET c2 == advance_frame(s.c)
         IN  [c |-> c2, frame_duration |-> get_current_frame_duration(c2),
              safety |-> s.safety + 1, done |-> FALSE,
              fired |-> add_callbacks(s.fired, advance_frame_callbacks(s.c))]
    ELSE IF s.c.current_frame_time + epsilon < s.frame_duration
    THEN [s EXCEPT !.done = TRUE]
    ELSE LET c2 == advance_frame(
                     [s.c EXCEPT !.current_frame_time = 0])
         IN  [c |-> c2, frame_duration |-> get_current_frame_duration(c2),
              safety |-> s.safety + 1, done |-> FALSE,
              fired |-> add_callbacks(s.fired, advance_frame_callbacks(s.c))]

(* One pass of the while loop of update(): the loop test, then the body.   *)
(* s.done records that the loop has been left.                             *)
update_step(s) ==
    IF s.done THEN s
    ELSE IF ~(s.c.playing /\ s.safety < max_steps)
    THEN [s EXCEPT !.done = TRUE]
    ELSE IF s.frame_duration <= 0
    THEN LET c2 == advance_frame(s.c)
         IN  [c |-> c2, frame_duration |-> get_current_frame_duration(c2),
              safety |-> s.safety + 1, done |-> FALSE,
              fired |-> add_callbacks(s.fired, advance_frame_callbacks(s.c))]
    ELSE IF s.c.current_frame_time + epsilon < s.frame_duration
    THEN [s EXCEPT !.done = TRUE]
    ELSE LET c2 == advance_frame(
                     [s.c EXCEPT !.current_frame_time = @ - s.frame_duration])
         IN  [c |-> c2, frame_duration |-> get_current_frame_duration(c2),
              safety |-> s.safety + 1, done |-> FALSE,
              fired |-> add_callbacks(s.fired, advance_frame_callbacks(s.c))]

(* n passes of the loop, stopping as soon as the loop has been left: the  *)
(* first half of the passes, then the rest from the loop state h they leave *)
RECURSIVE update_loop(_, _)
update_loop(s, n) ==
    IF n = 0 \/ s.done THEN s
    ELSE IF n = 1 THEN update_step(s)
    ELSE CHOOSE r \in {update_loop(h, n - (n \div 2)) :
                          h \in {update_loop(s, n \div 2)}} : TRUE

(* Passes the model grants the loop: one more than the loop test allows.   *)
LoopFuel == max_steps + 1

(* The loop of update(dt) from playback state c: the final loop state *)
update_run(c, dt) ==
    LET c1 == [c EXCEPT !.current_frame_time = @ + dt * c.playback_speed]
    IN  update_loop([c |-> c1,
                     frame_duration |-> get_current_frame_duration(c1),
                     safety |-> 0, done |-> FALSE, fired |-> NoCallbacks],
                    LoopFuel)

(* The guard of update() without the test of paused *)
update_enabled_ignores_pause(c) ==
    c.playing /\ c.current_anim # Null /\ ~c.finished

update_enabled(c) ==
    c.playing /\ ~c.paused /\ c.current_anim # Null /\ ~c.finished

update(c, dt) ==
    IF ~update_enabled(c) THEN c ELSE update_run(c, dt).c

(* The callbacks one update(dt) invokes from playback state c *)
update_callbacks(c, dt) ==
    IF ~update_enabled(c) THEN NoCallbacks ELSE update_run(c, dt).fired

is_playing(c) == c.playing /\ ~c.paused
is_finished(c) == c.finished
has_animation(c) == c.current_anim # Null
is_paused(c) == c.paused

(* The frame get_current_frame() looks up: frame current_frame_index of    *)
(* the bound animation, or Null                                            *)
get_current_frame(c) ==
    IF c.current_anim = Null THEN Null
    ELSE IF c.current_frame_index >= animations[c.current_anim].frame_count
    THEN Null
    ELSE <<c.current_anim, c.current_frame_index>>

(* The float quotient get_progress() returns, as <<numerator, denominator>>:*)
(* <<0, 0>> is 0.0f / 0.0f, which is NaN                                   *)
get_progress(c) ==
    IF c.current_anim = Null \/ animations[c.current_anim].frame_count = 0
    THEN <<0, 1>>
    ELSE <<c.current_frame_index, animations[c.current_anim].frame_count - 1>>

get_current_animation_name(c) == c.current_anim_name
get_current_frame_index(c) == c.current_frame_index

----------------------------------------------------------------------------
(* Callbacks that call back into the controller. A callback is game code;  *)
(* each of these calls one method of the controller it is set on.          *)

CallNothing == "nothing"
CallPause == "pause"
CallStop == "stop"
CallPlayIdle == "play idle"
CallPlayAttack == "play attack"
CallReplayAttack == "play attack, no restart"
Calls ==
    {CallNothing, CallPause, CallStop, CallPlayIdle, CallPlayAttack,
     CallReplayAttack}

(* What is set as on_animation_end, on_animation_loop, on_frame_change *)
Callbacks ==
    [on_animation_end : Calls, on_animation_loop : Calls,
     on_frame_change : Calls]

(* The playback state after the callback has run from playback state c *)
invoke(c, callback) ==
    CASE callback = CallNothing -> c
      [] callback = CallPause -> pause(c)
      [] callback = CallStop -> stop(c)
      [] callback = CallPlayIdle -> play(c, "idle", TRUE)
      [] callback = CallPlayAttack -> play(c, "attack", TRUE)
      [] callback = CallReplayAttack -> play(c, "attack", FALSE)

(* advance_frame() with the callbacks cb set: each is invoked where the    *)
(* code invokes it, and the code goes on from the state it leaves          *)
advance_frame_calling(c, cb) ==
    IF c.current_anim = Null THEN c
    ELSE LET anim == animations[c.current_anim]
             previous_frame == c.current_frame_index
             next == c.current_frame_index + 1
         IN  IF next >= anim.frame_count
             THEN IF anim.loop
                  THEN LET c1 == invoke([c EXCEPT !.current_frame_index = 0],
                                        cb.on_animation_loop)
                       IN  IF c1.current_frame_index # previous_frame
                           THEN invoke(c1, cb.on_frame_change)
                           ELSE c1
                  ELSE invoke([c EXCEPT
                                  !.current_frame_index = anim.frame_count - 1,
                                  !.playing = FALSE, !.finished = TRUE],
                              cb.on_animation_end)
             ELSE invoke([c EXCEPT !.current_frame_index = next],
                         cb.on_frame_change)

(* The pass of the while loop that does not count itself in safety *)
update_step_calling_uncounted(s, cb) ==
    IF s.done THEN s
    ELSE IF ~(s.c.playing /\ s.safety < max_steps)
    THEN [s EXCEPT !.done = TRUE]
    ELSE IF s.frame_duration <= 0
    THEN LET c2 == advance_frame_calling(s.c, cb)
         IN  [c |-> c2, frame_duration |-> get_current_frame_duration(c2),
              safety |-> s.safety, done |-> FALSE]
    ELSE IF s.c.current_frame_time + epsilon < s.frame_duration
    THEN [s EXCEPT !.done = TRUE]
    ELSE LET c2 == advance_frame_calling(
                     [s.c EXCEPT !.current_frame_time = @ - s.frame_duration],
                     cb)
         IN  [c |-> c2, frame_duration |-> get_current_frame_duration(c2),
              safety |-> s.safety, done |-> FALSE]

(* One pass of the while loop of update() with the callbacks cb set *)
update_step_calling(s, cb) ==
    IF s.done THEN s
    ELSE IF ~(s.c.playing /\ s.safety < max_steps)
    THEN [s EXCEPT !.done = TRUE]
    ELSE IF s.frame_duration <= 0
    THEN LET c2 == advance_frame_calling(s.c, cb)
         IN  [c |-> c2, frame_duration |-> get_current_frame_duration(c2),
              safety |-> s.safety + 1, done |-> FALSE]
    ELSE IF s.c.current_frame_time + epsilon < s.frame_duration
    THEN [s EXCEPT !.done = TRUE]
    ELSE LET c2 == advance_frame_calling(
                     [s.c EXCEPT !.current_frame_time = @ - s.frame_duration],
                     cb)
         IN  [c |-> c2, frame_duration |-> get_current_frame_duration(c2),
              safety |-> s.safety + 1, done |-> FALSE]

RECURSIVE update_loop_calling(_, _, _)
update_loop_calling(s, n, cb) ==
    IF n = 0 \/ s.done THEN s
    ELSE IF n = 1 THEN update_step_calling(s, cb)
    ELSE CHOOSE r \in {update_loop_calling(h, n - (n \div 2), cb) :
                          h \in {update_loop_calling(s, n \div 2, cb)}} : TRUE

update_run_calling(c, dt, cb) ==
    LET c1 == [c EXCEPT !.current_frame_time = @ + dt * c.playback_speed]
    IN  update_loop_calling(
            [c |-> c1, frame_duration |-> get_current_frame_duration(c1),
             safety |-> 0, done |-> FALSE], LoopFuel, cb)

update_calling(c, dt, cb) ==
    IF ~update_enabled(c) THEN c ELSE update_run_calling(c, dt, cb).c

----------------------------------------------------------------------------
(* AnimationStateMachine, as functions of the machine m: its fields and    *)
(* the playback state m.c of the controller it drives                      *)

Immediate == "Immediate"
OnFinish == "OnFinish"
CanInterrupt == "CanInterrupt"
TransitionCondition == {Immediate, OnFinish, CanInterrupt}

Machine ==
    [c |-> Ctl, states |-> states, transitions |-> transitions,
     current_state_name |-> current_state_name,
     pending_state_name |-> pending_state_name]

add_state(m, name, priority) ==
    [m EXCEPT !.states = [n \in DOMAIN m.states \cup {name} |->
                             IF n = name THEN priority ELSE m.states[n]]]

add_transition(m, from, to, condition, predicate) ==
    [m EXCEPT !.transitions =
        Append(@, [from_state |-> from, to_state |-> to,
                   condition |-> condition, predicate |-> predicate])]

(* get_current_priority that ranks an unregistered current state below    *)
(* every priority in use                                                   *)
get_current_priority_lowest(m) ==
    IF m.current_state_name \in DOMAIN m.states
    THEN m.states[m.current_state_name] ELSE -2

get_current_priority(m) ==
    IF m.current_state_name \in DOMAIN m.states
    THEN m.states[m.current_state_name] ELSE 0

(* can_transition with the comparison turned round *)
can_transition_reversed(m, to_state) ==
    IF to_state \notin DOMAIN m.states THEN FALSE
    ELSE m.states[to_state] <= get_current_priority(m)

(* can_transition that lets only a strictly higher priority through *)
can_transition_strict(m, to_state) ==
    IF to_state \notin DOMAIN m.states THEN FALSE
    ELSE m.states[to_state] > get_current_priority(m)

can_transition(m, to_state) ==
    IF to_state \notin DOMAIN m.states THEN FALSE
    ELSE m.states[to_state] >= get_current_priority(m)

(* execute_transition that plays without restart *)
execute_transition_no_restart(m, to_state) ==
    [m EXCEPT !.current_state_name = to_state,
              !.c = play(m.c, to_state, FALSE)]

execute_transition(m, to_state) ==
    [m EXCEPT !.current_state_name = to_state,
              !.c = play(m.c, to_state, TRUE)]

(* transition_to that lets force through to an unregistered state *)
transition_to_forces_unregistered(m, state_name, force) ==
    IF state_name \notin DOMAIN m.states /\ ~force THEN m
    ELSE IF m.current_state_name = state_name /\ ~force THEN m
    ELSE IF force
    THEN [execute_transition(m, state_name) EXCEPT !.pending_state_name = Empty]
    ELSE IF ~can_transition(m, state_name)
    THEN [m EXCEPT !.pending_state_name = state_name]
    ELSE execute_transition(m, state_name)

(* transition_to whose "already in this state" return ignores force *)
transition_to_returns_in_state(m, state_name, force) ==
    IF state_name \notin DOMAIN m.states THEN m
    ELSE IF m.current_state_name = state_name THEN m
    ELSE IF force
    THEN [execute_transition(m, state_name) EXCEPT !.pending_state_name = Empty]
    ELSE IF ~can_transition(m, state_name)
    THEN [m EXCEPT !.pending_state_name = state_name]
    ELSE execute_transition(m, state_name)

(* transition_to that records a denied request only in an empty slot *)
transition_to_keeps_pending(m, state_name, force) ==
    IF state_name \notin DOMAIN m.states THEN m
    ELSE IF m.current_state_name = state_name /\ ~force THEN m
    ELSE IF force
    THEN [execute_transition(m, state_name) EXCEPT !.pending_state_name = Empty]
    ELSE IF ~can_transition(m, state_name)
    THEN IF m.pending_state_name = Empty
         THEN [m EXCEPT !.pending_state_name = state_name] ELSE m
    ELSE execute_transition(m, state_name)

(* transition_to that empties the slot whenever it executes *)
transition_to_clears_on_execute(m, state_name, force) ==
    IF state_name \notin DOMAIN m.states THEN m
    ELSE IF m.current_state_name = state_name /\ ~force THEN m
    ELSE IF force
    THEN [execute_transition(m, state_name) EXCEPT !.pending_state_name = Empty]
    ELSE IF ~can_transition(m, state_name)
    THEN [m EXCEPT !.pending_state_name = state_name]
    ELSE [execute_transition(m, state_name) EXCEPT !.pending_state_name = Empty]

transition_to(m, state_name, force) ==
    IF state_name \notin DOMAIN m.states THEN m
    ELSE IF m.current_state_name = state_name /\ ~force THEN m
    ELSE IF force
    THEN [execute_transition(m, state_name) EXCEPT !.pending_state_name = Empty]
    ELSE IF ~can_transition(m, state_name)
    THEN [m EXCEPT !.pending_state_name = state_name]
    ELSE execute_transition(m, state_name)

(* The body of the scan with Immediate edges put to the priority check *)
should_transition_arbitrates_immediate(m, i, pv) ==
    LET transition == m.transitions[i] IN
    /\ transition.from_state = m.current_state_name
    /\ ~(transition.predicate /\ ~pv[i])
    /\ CASE transition.condition = Immediate ->
                can_transition(m, transition.to_state)
         [] transition.condition = OnFinish -> is_finished(m.c)
         [] transition.condition = CanInterrupt ->
                can_transition(m, transition.to_state)

(* The body of the scan of update() for edge i: does it fire?  pv[i] is   *)
(* what the predicate of edge i returns when it is called.                 *)
should_transition(m, i, pv) ==
    LET transition == m.transitions[i] IN
    /\ transition.from_state = m.current_state_name
    /\ ~(transition.predicate /\ ~pv[i])
    /\ CASE transition.condition = Immediate -> TRUE
         [] transition.condition = OnFinish -> is_finished(m.c)
         [] transition.condition = CanInterrupt ->
                can_transition(m, transition.to_state)

(* The scan in registration order from edge i: the first edge that fires,  *)
(* or 0                                                                    *)
RECURSIVE scan_transitions(_, _, _)
scan_transitions(m, pv, i) ==
    IF i > Len(m.transitions) THEN 0
    ELSE IF should_transition(m, i, pv) THEN i
    ELSE scan_transitions(m, pv, i + 1)

(* drain_pending that leaves the slot filled *)
drain_pending_keeps_slot(m) ==
    IF m.pending_state_name # Empty /\ is_finished(m.c)
    THEN execute_transition(m, m.pending_state_name)
    ELSE m

(* The pending drain that empties the slot without executing the request *)
drain_pending_discards(m) ==
    IF m.pending_state_name # Empty /\ is_finished(m.c)
    THEN [m EXCEPT !.pending_state_name = Empty]
    ELSE m

drain_pending(m) ==
    IF m.pending_state_name # Empty /\ is_finished(m.c)
    THEN [execute_transition(m, m.pending_state_name)
            EXCEPT !.pending_state_name = Empty]
    ELSE m

(* update() without the return after an executed edge: the scan goes on   *)
(* from the next edge in the new state, then the pending slot is tried     *)
RECURSIVE scan_on(_, _, _)
scan_on(m, pv, i) ==
    IF i > Len(m.transitions) THEN m
    ELSE IF should_transition(m, i, pv)
    THEN scan_on(execute_transition(m, m.transitions[i].to_state), pv, i + 1)
    ELSE scan_on(m, pv, i + 1)

machine_update_cascades(m, dt, pv) ==
    drain_pending(scan_on([m EXCEPT !.c = update(m.c, dt)], pv, 1))

(* update() without the return after an executed edge: the pending drain  *)
(* still runs                                                              *)
machine_update_drains_after_edge(m, dt, pv) ==
    LET m1 == [m EXCEPT !.c = update(m.c, dt)]
        i == scan_transitions(m1, pv, 1)
    IN  IF i # 0
        THEN drain_pending(execute_transition(m1, m1.transitions[i].to_state))
        ELSE drain_pending(m1)

(* update() that evaluates the edges and the pending request before it    *)
(* steps the controller                                                    *)
machine_update_steps_last(m, dt, pv) ==
    LET i == scan_transitions(m, pv, 1)
        m0 == IF i # 0 THEN execute_transition(m, m.transitions[i].to_state)
              ELSE drain_pending(m)
    IN  [m0 EXCEPT !.c = update(m0.c, dt)]

(* update() that scans the edges again from the state an executed edge    *)
(* leads to                                                                *)
machine_update_rescans(m, dt, pv) ==
    LET m1 == [m EXCEPT !.c = update(m.c, dt)]
        i == scan_transitions(m1, pv, 1)
    IN  IF i # 0
        THEN LET m2 == execute_transition(m1, m1.transitions[i].to_state)
                 j == scan_transitions(m2, pv, 1)
             IN  IF j # 0
                 THEN execute_transition(m2, m2.transitions[j].to_state)
                 ELSE m2
        ELSE drain_pending(m1)

machine_update(m, dt, pv) ==
    LET m1 == [m EXCEPT !.c = update(m.c, dt)]
        i == scan_transitions(m1, pv, 1)
    IN  IF i # 0 THEN execute_transition(m1, m1.transitions[i].to_state)
        ELSE drain_pending(m1)

has_pending_transition(m) == m.pending_state_name # Empty

(* Callbacks of the controller that call back into the state machine       *)
(* driving it, or into the controller                                      *)

CallTransitionToIdle == "transition_to idle"
CallTransitionToAttack == "transition_to attack"
MachineCalls ==
    {CallNothing, CallPlayIdle, CallTransitionToIdle, CallTransitionToAttack}

(* The callback sets with one of the three callbacks set *)
MachineCallbacks ==
    {cb \in [on_animation_end : MachineCalls,
             on_animation_loop : MachineCalls,
             on_frame_change : MachineCalls] :
        Cardinality({e \in {"on_animation_end", "on_animation_loop",
                            "on_frame_change"} : cb[e] # CallNothing}) <= 1}

(* The machine after the callback has run from machine m *)
machine_invoke(m, callback) ==
    CASE callback = CallTransitionToIdle -> transition_to(m, "idle", FALSE)
      [] callback = CallTransitionToAttack -> transition_to(m, "attack", FALSE)
      [] OTHER -> [m EXCEPT !.c = invoke(m.c, callback)]

(* advance_frame() of the controller of machine m with the callbacks cb *)
machine_advance_frame_calling(m, cb) ==
    IF m.c.current_anim = Null THEN m
    ELSE LET anim == animations[m.c.current_anim]
             previous_frame == m.c.current_frame_index
             next == m.c.current_frame_index + 1
         IN  IF next >= anim.frame_count
             THEN IF anim.loop
                  THEN LET m1 == machine_invoke(
                                   [m EXCEPT !.c.current_frame_index = 0],
                                   cb.on_animation_loop)
                       IN  IF m1.c.current_frame_index # previous_frame
                           THEN machine_invoke(m1, cb.on_frame_change)
                           ELSE m1
                  ELSE machine_invoke(
                          [m EXCEPT
                              !.c.current_frame_index = anim.frame_count - 1,
                              !.c.playing = FALSE, !.c.finished = TRUE],
                          cb.on_animation_end)
             ELSE machine_invoke([m EXCEPT !.c.current_frame_index = next],
                                 cb.on_frame_change)

(* One pass of the while loop of the controller's update() *)
machine_update_step_calling(s, cb) ==
    IF s.done THEN s
    ELSE IF ~(s.m.c.playing /\ s.safety < max_steps)
    THEN [s EXCEPT !.done = TRUE]
    ELSE IF s.frame_duration <= 0
    THEN LET m2 == machine_advance_frame_calling(s.m, cb)
         IN  [m |-> m2, frame_duration |-> get_current_frame_duration(m2.c),
              safety |-> s.safety + 1, done |-> FALSE]
    ELSE IF s.m.c.current_frame_time + epsilon < s.frame_duration
    THEN [s EXCEPT !.done = TRUE]
    ELSE LET m2 == machine_advance_frame_calling(
                     [s.m EXCEPT !.c.current_frame_time
                                     = @ - s.frame_duration], cb)
         IN  [m |-> m2, frame_duration |-> get_current_frame_duration(m2.c),
              safety |-> s.safety + 1, done |-> FALSE]

RECURSIVE machine_update_loop_calling(_, _, _)
machine_update_loop_calling(s, n, cb) ==
    IF n = 0 \/ s.done THEN s
    ELSE IF n = 1 THEN machine_update_step_calling(s, cb)
    ELSE CHOOSE r \in
            {machine_update_loop_calling(h, n - (n \div 2), cb) :
                h \in {machine_update_loop_calling(s, n \div 2, cb)}} : TRUE

(* controller->update(dt) at the head of the state machine's update() *)
controller_update_calling(m, dt, cb) ==
    IF ~update_enabled(m.c) THEN m
    ELSE LET m1 == [m EXCEPT !.c.current_frame_time
                                 = @ + dt * m.c.playback_speed]
         IN  machine_update_loop_calling(
                [m |-> m1,
                 frame_duration |-> get_current_frame_duration(m1.c),
                 safety |-> 0, done |-> FALSE], LoopFuel, cb).m

machine_update_calling(m, dt, pv, cb) ==
    LET m1 == controller_update_calling(m, dt, cb)
        i == scan_transitions(m1, pv, 1)
    IN  IF i # 0 THEN execute_transition(m1, m1.transitions[i].to_state)
        ELSE drain_pending(m1)

----------------------------------------------------------------------------
(* SceneManager, as functions of the manager sm. A scene is the number it  *)
(* was made as; lifecycleLog[scene] lists the calls of onEnter, onExit,    *)
(* onPause and onResume it has received.                                   *)

NullScene == 0

TransitionNone == "None"
Fade == "Fade"
SceneTransition == {TransitionNone, Fade}

FadingOut == "FadingOut"
FadingIn == "FadingIn"

NoOperation == "nullptr"
OperationChange == "executeChangeScene"
OperationPush == "executePushScene"
OperationPop == "executePopScene"

(* TransitionConfig: an instant cut, and a fade of one time unit *)
TransitionConfig ==
    {[type |-> TransitionNone, duration |-> 1],
     [type |-> Fade, duration |-> 1]}

SceneManager ==
    [sceneStack |-> sceneStack, pendingScene |-> pendingScene,
     pendingOperation |-> pendingOperation,
     transitionState |-> transitionState,
     currentTransition |-> currentTransition,
     transitionProgress |-> transitionProgress,
     lifecycleLog |-> lifecycleLog]

NewSceneManager ==
    [sceneStack |-> <<>>, pendingScene |-> NullScene,
     pendingOperation |-> NoOperation,
     transitionState |-> TransitionNone,
     currentTransition |-> [type |-> TransitionNone, duration |-> 1],
     transitionProgress |-> 0,
     lifecycleLog |-> <<>>]

(* std::make_unique<Scene>: the scene made next, and the manager's world   *)
(* with it in                                                              *)
MadeScene(sm) == Len(sm.lifecycleLog) + 1

make_scene(sm) == [sm EXCEPT !.lifecycleLog = Append(@, <<>>)]

back(sm) == sm.sceneStack[Len(sm.sceneStack)]

pop_back(sm) ==
    [sm EXCEPT !.sceneStack = SubSeq(@, 1, Len(@) - 1)]

(* scene->method() *)
received(sm, scene, method) ==
    [sm EXCEPT !.lifecycleLog[scene] = Append(@, method)]

(* The second half of executeChangeScene and executePushScene *)
enter_pending(sm) ==
    IF sm.pendingScene # NullScene
    THEN [received(sm, sm.pendingScene, "onEnter") EXCEPT
             !.sceneStack = Append(@, sm.pendingScene),
             !.pendingScene = NullScene]
    ELSE sm

executeChangeScene(sm) ==
    enter_pending(
        IF sm.sceneStack # <<>>
        THEN [received(sm, back(sm), "onExit") EXCEPT !.sceneStack = <<>>]
        ELSE sm)

executePushScene(sm) ==
    enter_pending(
        IF sm.sceneStack # <<>> THEN received(sm, back(sm), "onPause")
        ELSE sm)

executePopScene(sm) ==
    IF sm.sceneStack = <<>> THEN sm
    ELSE LET sm1 == pop_back(received(sm, back(sm), "onExit"))
         IN  IF sm1.sceneStack # <<>>
             THEN received(sm1, back(sm1), "onResume")
             ELSE sm1

(* pendingOperation() *)
perform(sm, operation) ==
    CASE operation = OperationChange -> executeChangeScene(sm)
      [] operation = OperationPush -> executePushScene(sm)
      [] operation = OperationPop -> executePopScene(sm)
      [] OTHER -> sm

startTransition(sm, config, operation) ==
    [sm EXCEPT !.currentTransition = config,
               !.pendingOperation = operation,
               !.transitionState = FadingOut,
               !.transitionProgress = 0]

changeScene(sm, newScene, transition) ==
    IF newScene = NullScene THEN sm
    ELSE LET sm1 == [sm EXCEPT !.pendingScene = newScene]
         IN  IF transition.type = TransitionNone
             THEN executeChangeScene(sm1)
             ELSE startTransition(sm1, transition, OperationChange)

pushScene(sm, newScene, transition) ==
    IF newScene = NullScene THEN sm
    ELSE LET sm1 == [sm EXCEPT !.pendingScene = newScene]
         IN  IF transition.type = TransitionNone
             THEN executePushScene(sm1)
             ELSE startTransition(sm1, transition, OperationPush)

popScene(sm, transition) ==
    IF sm.sceneStack = <<>> THEN sm
    ELSE IF transition.type = TransitionNone THEN executePopScene(sm)
    ELSE startTransition(sm, transition, OperationPop)

updateTransition(sm, dt) ==
    LET sm1 == [sm EXCEPT !.transitionProgress = @ + dt]
    IN  IF sm1.transitionState = FadingOut
        THEN IF sm1.transitionProgress >= sm1.currentTransition.duration
             THEN [perform(sm1, sm1.pendingOperation) EXCEPT
                      !.pendingOperation = NoOperation,
                      !.transitionState = FadingIn,
                      !.transitionProgress = 0]
             ELSE sm1
        ELSE IF sm1.transitionState = FadingIn
        THEN IF sm1.transitionProgress >= sm1.currentTransition.duration
             THEN [sm1 EXCEPT !.transitionState = TransitionNone,
                              !.transitionProgress = 0]
             ELSE sm1
        ELSE sm1

(* SceneManager::update; the update(dt) of the top scene is outside the    *)
(* model                                                                   *)
manager_update(sm, dt) ==
    IF sm.transitionState # TransitionNone THEN updateTransition(sm, dt)
    ELSE sm

getSceneCount(sm) == Len(sm.sceneStack)

InitScenes ==
    /\ sceneStack = NewSceneManager.sceneStack
    /\ pendingScene = NewSceneManager.pendingScene
    /\ pendingOperation = NewSceneManager.pendingOperation
    /\ transitionState = NewSceneManager.transitionState
    /\ currentTransition = NewSceneManager.currentTransition
    /\ transitionProgress = NewSceneManager.transitionProgress
    /\ lifecycleLog = NewSceneManager.lifecycleLog

----------------------------------------------------------------------------
(* Actions of the controller *)

SetCtl(c) ==
    /\ current_anim' = c.current_anim
    /\ current_anim_name' = c.current_anim_name
    /\ current_frame_index' = c.current_frame_index
    /\ current_frame_time' = c.current_frame_time
    /\ playback_speed' = c.playback_speed
    /\ playing' = c.playing
    /\ paused' = c.paused
    /\ finished' = c.finished

InTime(c) ==
    c.current_frame_time <= MaxTime /\ c.current_frame_time >= -MaxTime

Play ==
    \E name \in PlayNames, restart \in BOOLEAN :
        /\ SetCtl(play(Ctl, name, restart))
        /\ UNCHANGED <<animations, sm_vars, scene_vars>>

Stop == SetCtl(stop(Ctl)) /\ UNCHANGED <<animations, sm_vars, scene_vars>>

Pause == SetCtl(pause(Ctl)) /\ UNCHANGED <<animations, sm_vars, scene_vars>>

Resume == SetCtl(resume(Ctl)) /\ UNCHANGED <<animations, sm_vars, scene_vars>>

Reset == SetCtl(reset(Ctl)) /\ UNCHANGED <<animations, sm_vars, scene_vars>>

SetSpeed ==
    \E speed \in Speeds :
        /\ SetCtl(set_speed(Ctl, speed))
        /\ UNCHANGED <<animations, sm_vars, scene_vars>>

Update ==
    \E dt \in DTs :
        LET c == update(Ctl, dt)
        IN  /\ InTime(c)
            /\ SetCtl(c)
            /\ UNCHANGED <<animations, sm_vars, scene_vars>>

InitController ==
    /\ current_anim = NewController.current_anim
    /\ current_anim_name = NewController.current_anim_name
    /\ current_frame_index = NewController.current_frame_index
    /\ current_frame_time = NewController.current_frame_time
    /\ playback_speed = NewController.playback_speed
    /\ playing = NewController.playing
    /\ paused = NewController.paused
    /\ finished = NewController.finished

InitMachine ==
    /\ states = <<>>
    /\ transitions = <<>>
    /\ current_state_name = Empty
    /\ pending_state_name = Empty

Atlas(idle) == [n \in AnimNames |-> IF n = "idle" THEN idle ELSE AttackData]

(* The controller alone, driven by game code *)
Init ==
    /\ \E a \in PlayableData : animations = Atlas(a)
    /\ InitController
    /\ InitMachine
    /\ InitScenes

Next == Play \/ Stop \/ Pause \/ Resume \/ Reset \/ SetSpeed \/ Update

Spec == Init /\ [][Next]_vars

(* The controller under stalls: update(dt) with dt beyond max_steps frames, *)
(* and loops of non-positive frame durations                               *)
StallInit ==
    /\ \E a \in StallData : animations = Atlas(a)
    /\ InitController
    /\ InitMachine
    /\ InitScenes

StallPlay ==
    \E restart \in BOOLEAN :
        /\ SetCtl(play(Ctl, "idle", restart))
        /\ UNCHANGED <<animations, sm_vars, scene_vars>>

StallUpdate ==
    \E dt \in StallDTs :
        LET c == update(Ctl, dt)
        IN  /\ InTime(c)
            /\ SetCtl(c)
            /\ UNCHANGED <<animations, sm_vars, scene_vars>>

StallNext == StallPlay \/ StallUpdate \/ Pause \/ Resume \/ Reset

SpecStall == StallInit /\ [][StallNext]_vars

(* The state machine driving the controller *)
StateNames == AnimNames
TargetNames == StateNames \cup {"missing"}
MachineDTs == {0, 3, 6}

(* add_state inputs: "idle" is the base state, "attack" is below, level    *)
(* with or above it                                                        *)
StatePriorities(name) == IF name = "idle" THEN {0} ELSE {-1, 0, 1}

Edge(from, to, condition, predicate) ==
    [from_state |-> from, to_state |-> to, condition |-> condition,
     predicate |-> predicate]

(* add_transition inputs: every kind of edge between the two states, and   *)
(* a self-loop                                                             *)
EdgeSet ==
    {Edge(e[1], e[2], Immediate, p) :
        e \in {<<"idle", "attack">>, <<"attack", "idle">>}, p \in BOOLEAN}
    \cup {Edge(e[1], e[2], cond, FALSE) :
        e \in {<<"idle", "attack">>, <<"attack", "idle">>},
        cond \in {OnFinish, CanInterrupt}}
    \cup {Edge("attack", "attack", Immediate, FALSE)}

MachineIdle ==
    [frame_count |-> 1, frame_duration |-> 3, frame_durations |-> <<>>,
     loop |-> TRUE]

MachineAttack ==
    [frame_count |-> 2, frame_duration |-> 3, frame_durations |-> <<>>,
     loop |-> FALSE]

(* The atlas with both animations, and the one where state "attack" has    *)
(* no animation                                                            *)
MachineAtlases ==
    {[n \in AnimNames |-> IF n = "idle" THEN MachineIdle ELSE MachineAttack],
     [n \in {"idle"} |-> MachineIdle]}

(* What the predicates of the registered edges may return in one update() *)
PredicateValues(edges) ==
    [{i \in 1..Len(edges) : edges[i].predicate} -> BOOLEAN]

SetMachine(m) ==
    /\ SetCtl(m.c)
    /\ states' = m.states
    /\ transitions' = m.transitions
    /\ current_state_name' = m.current_state_name
    /\ pending_state_name' = m.pending_state_name
    /\ UNCHANGED <<animations, scene_vars>>

AddState ==
    \E name \in StateNames :
        \E priority \in StatePriorities(name) :
            SetMachine(add_state(Machine, name, priority))

AddTransition ==
    /\ Len(transitions) < MaxTransitions
    /\ \E e \in EdgeSet :
            SetMachine(add_transition(Machine, e.from_state, e.to_state,
                                      e.condition, e.predicate))

TransitionTo ==
    \E state_name \in TargetNames, force \in BOOLEAN :
        SetMachine(transition_to(Machine, state_name, force))

MachineUpdate ==
    \E dt \in MachineDTs, pv \in PredicateValues(transitions) :
        LET m == machine_update(Machine, dt, pv)
        IN  InTime(m.c) /\ SetMachine(m)

MachineInit ==
    /\ animations \in MachineAtlases
    /\ InitController
    /\ InitMachine
    /\ InitScenes

MachineNext == AddState \/ AddTransition \/ TransitionTo \/ MachineUpdate

SpecMachine == MachineInit /\ [][MachineNext]_vars

(* The same machine over the atlas that has an animation for every state *)
EdgesInit ==
    /\ animations =
          [n \in AnimNames |->
              IF n = "idle" THEN MachineIdle ELSE MachineAttack]
    /\ InitController
    /\ InitMachine
    /\ InitScenes

SpecEdges == EdgesInit /\ [][MachineNext]_vars

----------------------------------------------------------------------------
(* The controller with callbacks that call back into it *)

(* idle loops over three frames, attack is played once and has two *)
ReentrantAtlas ==
    [n \in AnimNames |->
        [frame_count |-> IF n = "idle" THEN 3 ELSE 2,
         frame_duration |-> 3, frame_durations |-> <<>>,
         loop |-> n = "idle"]]

ReentrantInit ==
    /\ animations = ReentrantAtlas
    /\ InitController
    /\ InitMachine
    /\ InitScenes

UpdateCalling ==
    \E dt \in DTs, cb \in Callbacks :
        LET c == update_calling(Ctl, dt, cb)
        IN  /\ InTime(c)
            /\ SetCtl(c)
            /\ UNCHANGED <<animations, sm_vars, scene_vars>>

ReentrantNext ==
    Play \/ Stop \/ Pause \/ Resume \/ Reset \/ SetSpeed \/ UpdateCalling

SpecReentrant == ReentrantInit /\ [][ReentrantNext]_vars

----------------------------------------------------------------------------
(* The state machine whose controller has callbacks that call back into   *)
(* the machine and the controller                                          *)

CallingEdgeSet == {e \in EdgeSet : ~e.predicate}

CallingAddTransition ==
    /\ Len(transitions) < MaxTransitions
    /\ \E e \in CallingEdgeSet :
            SetMachine(add_transition(Machine, e.from_state, e.to_state,
                                      e.condition, e.predicate))

MachineUpdateCalling ==
    \E dt \in MachineDTs, cb \in MachineCallbacks :
        LET m == machine_update_calling(Machine, dt, <<>>, cb)
        IN  InTime(m.c) /\ SetMachine(m)

CallingInit ==
    /\ animations = ReentrantAtlas
    /\ InitController
    /\ InitMachine
    /\ InitScenes

CallingNext ==
    AddState \/ CallingAddTransition \/ TransitionTo \/ MachineUpdateCalling

SpecCalling == CallingInit /\ [][CallingNext]_vars

----------------------------------------------------------------------------
(* The scene manager *)

MaxScenes == 4          \* scenes made

SceneDTs == {0, 1}

SetSceneManager(sm) ==
    /\ sceneStack' = sm.sceneStack
    /\ pendingScene' = sm.pendingScene
    /\ pendingOperation' = sm.pendingOperation
    /\ transitionState' = sm.transitionState
    /\ currentTransition' = sm.currentTransition
    /\ transitionProgress' = sm.transitionProgress
    /\ lifecycleLog' = sm.lifecycleLog
    /\ UNCHANGED <<animations, ctl_vars, sm_vars>>

ChangeScene ==
    /\ Len(lifecycleLog) < MaxScenes
    /\ \E transition \in TransitionConfig :
          SetSceneManager(changeScene(make_scene(SceneManager),
                                      MadeScene(SceneManager), transition))

PushScene ==
    /\ Len(lifecycleLog) < MaxScenes
    /\ \E transition \in TransitionConfig :
          SetSceneManager(pushScene(make_scene(SceneManager),
                                    MadeScene(SceneManager), transition))

PopScene ==
    \E transition \in TransitionConfig :
        SetSceneManager(popScene(SceneManager, transition))

ManagerUpdate ==
    \E dt \in SceneDTs : SetSceneManager(manager_update(SceneManager, dt))

SceneInit ==
    /\ animations = ReentrantAtlas
    /\ InitController
    /\ InitMachine
    /\ InitScenes

SceneNext == ChangeScene \/ PushScene \/ PopScene \/ ManagerUpdate

SpecScene == SceneInit /\ [][SceneNext]_vars

----------------------------------------------------------------------------
(* The state machine with three states of distinct priorities and no       *)
(* edges: requests, denials and the pending slot                           *)

QueueNames == {"idle", "walk", "attack"}

(* add_state inputs: the priorities the three states are registered with *)
QueuePriority(name) ==
    CASE name = "idle" -> 0
      [] name = "walk" -> 1
      [] name = "attack" -> 3

(* idle and walk loop, attack is played once; two frames each *)
QueueAtlas ==
    [n \in QueueNames |->
        [frame_count |-> 2, frame_duration |-> 3, frame_durations |-> <<>>,
         loop |-> n # "attack"]]

QueueDTs == {0, 1, 3}

QueueInit ==
    /\ animations = QueueAtlas
    /\ InitController
    /\ InitMachine
    /\ InitScenes

QueueAddState ==
    \E name \in QueueNames :
        SetMachine(add_state(Machine, name, QueuePriority(name)))

QueueTransitionTo ==
    \E state_name \in QueueNames, force \in BOOLEAN :
        SetMachine(transition_to(Machine, state_name, force))

QueueUpdate ==
    \E dt \in QueueDTs, pv \in PredicateValues(transitions) :
        SetMachine(machine_update(Machine, dt, pv))

QueueNext == QueueAddState \/ QueueTransitionTo \/ QueueUpdate

SpecQueue == QueueInit /\ [][QueueNext]_vars

(* The same machine driven as a game loop drives it: states are registered *)
(* and requests made while nothing is pending; once a request is pending   *)
(* the loop only calls update(dt) with dt > 0, frame after frame           *)
DrainAddState == pending_state_name = Empty /\ QueueAddState

DrainTransitionTo == pending_state_name = Empty /\ QueueTransitionTo

DrainTick ==
    \E dt \in QueueDTs \ {0}, pv \in PredicateValues(transitions) :
        SetMachine(machine_update(Machine, dt, pv))

DrainNext == DrainAddState \/ DrainTransitionTo \/ DrainTick

SpecDrain == QueueInit /\ [][DrainNext]_vars /\ WF_vars(DrainTick)

----------------------------------------------------------------------------
(* Properties of the state machine, checked under SpecMachine *)

Priority(name) == IF name \in DOMAIN states THEN states[name] ELSE 0

(* Edge i fires in an update() whose controller step ended in playback     *)
(* state c1 and whose predicates returned pv                               *)
EdgeMatches(i, c1, pv) ==
    LET e == transitions[i] IN
    /\ e.from_state = current_state_name
    /\ (e.predicate => pv[i])
    /\ \/ e.condition = Immediate
       \/ e.condition = OnFinish /\ c1.finished
       \/ /\ e.condition = CanInterrupt
          /\ e.to_state \in DOMAIN states
          /\ states[e.to_state] >= Priority(current_state_name)

Matching(c1, pv) == {i \in 1..Len(transitions) : EdgeMatches(i, c1, pv)}

Min(S) == CHOOSE i \in S : \A j \in S : i <= j

(* C1: an unforced transition_to(target) to a registered target of lower   *)
(* priority than the current state leaves the current state and the        *)
(* controller as they are and leaves target pending.                       *)
C1_PriorityInvariant ==
    \A target \in DOMAIN states :
        states[target] < Priority(current_state_name) =>
            LET m == transition_to(Machine, target, FALSE)
            IN  /\ m.current_state_name = current_state_name
                /\ m.c = Ctl
                /\ m.pending_state_name = target

(* A denied request is pending behind a playing state of higher priority *)
C1_Witness ==
    /\ pending_state_name \in DOMAIN states
    /\ current_state_name \in DOMAIN states
    /\ states[pending_state_name] < states[current_state_name]
    /\ playing /\ current_frame_index > 0

(* C2, as claimed: with a request pending, an update(dt) in which the      *)
(* controller becomes finished ends in the pending state with the slot     *)
(* empty, whatever edges are registered.                                   *)
C2_PendingDrainAlways ==
    (pending_state_name # Empty /\ ~finished) =>
        \A dt \in MachineDTs, pv \in PredicateValues(transitions) :
            update(Ctl, dt).finished =>
                LET m == machine_update(Machine, dt, pv)
                IN  /\ m.current_state_name = pending_state_name
                    /\ m.pending_state_name = Empty

(* C2, amended: the same, for the update() calls in which no registered    *)
(* edge from the current state fires.                                      *)
C2_PendingDrain ==
    (pending_state_name # Empty /\ ~finished) =>
        \A dt \in MachineDTs, pv \in PredicateValues(transitions) :
            LET c1 == update(Ctl, dt)
            IN  (c1.finished /\ Matching(c1, pv) = {}) =>
                    LET m == machine_update(Machine, dt, pv)
                    IN  /\ m.current_state_name = pending_state_name
                        /\ m.pending_state_name = Empty

(* A pending request that the next update(dt) drains into another state *)
C2_Witness ==
    /\ pending_state_name # Empty /\ ~finished
    /\ pending_state_name # current_state_name
    /\ \E dt \in MachineDTs, pv \in PredicateValues(transitions) :
          LET c1 == update(Ctl, dt)
          IN  /\ c1.finished /\ Matching(c1, pv) = {}
              /\ machine_update(Machine, dt, pv).current_state_name
                    = pending_state_name

(* C3: update() executes the first matching edge in registration order,    *)
(* once, and nothing else; with no matching edge the state changes only    *)
(* by the pending drain.                                                   *)
C3_OneTransitionPerUpdate ==
    \A dt \in MachineDTs, pv \in PredicateValues(transitions) :
        LET c1 == update(Ctl, dt)
            fire == Matching(c1, pv)
            m == machine_update(Machine, dt, pv)
        IN  IF fire # {}
            THEN LET to == transitions[Min(fire)].to_state
                 IN  /\ m.current_state_name = to
                     /\ m.c = play(c1, to, TRUE)
                     /\ m.pending_state_name = pending_state_name
            ELSE \/ m.current_state_name = current_state_name
                 \/ /\ pending_state_name # Empty /\ c1.finished
                    /\ m.current_state_name = pending_state_name

(* A chain: the edge that fires leads to a state whose own edge would      *)
(* fire at once                                                            *)
C3_Witness ==
    \E i, j \in 1..Len(transitions) :
        /\ i < j
        /\ EdgeMatches(i, Ctl, [k \in 1..Len(transitions) |-> TRUE])
        /\ transitions[j].from_state = transitions[i].to_state
        /\ transitions[j].to_state # transitions[i].to_state
        /\ transitions[j].condition = Immediate
        /\ ~transitions[j].predicate
        /\ machine_update(Machine, 0, [k \in {} |-> TRUE]).current_state_name
              = transitions[i].to_state

----------------------------------------------------------------------------
(* Properties of the controller *)

Anim == animations[current_anim]

(* The playback state play() leaves: frame 0, no time elapsed, playing *)
JustPlayed ==
    /\ current_anim # Null
    /\ current_frame_index = 0 /\ current_frame_time = 0
    /\ playing /\ ~paused /\ ~finished

Uniform(anim) == anim.frame_durations = <<>>

(* C4, as claimed (checked under SpecStall): right after play() of a loop  *)
(* of N frames of duration d > 0 at speed 1, update(k*d) leaves frame      *)
(* k mod N, playing and not finished, for every k >= 0.                    *)
C4_LoopAnyK ==
    (JustPlayed /\ playback_speed = 1 /\ Anim.loop /\ Uniform(Anim)
        /\ Anim.frame_duration > 0) =>
        \A dt \in StallDTs :
            dt % Anim.frame_duration = 0 =>
                LET c == update(Ctl, dt)
                    k == dt \div Anim.frame_duration
                IN  /\ c.current_frame_index = k % Anim.frame_count
                    /\ is_playing(c) /\ ~is_finished(c)

(* C4, amended (checked under SpecStall): the same for d > epsilon and     *)
(* 0 <= k <= max_steps.                                                    *)
C4_LoopUpToCap ==
    (JustPlayed /\ playback_speed = 1 /\ Anim.loop /\ Uniform(Anim)
        /\ Anim.frame_duration > epsilon) =>
        \A dt \in StallDTs :
            (dt % Anim.frame_duration = 0
                /\ dt \div Anim.frame_duration <= max_steps) =>
                LET c == update(Ctl, dt)
                    k == dt \div Anim.frame_duration
                IN  /\ c.current_frame_index = k % Anim.frame_count
                    /\ is_playing(c) /\ ~is_finished(c)

(* A loop of two frames just played, which a stall of max_steps frames     *)
(* wraps max_steps / 2 times                                               *)
C4_Witness ==
    /\ JustPlayed /\ playback_speed = 1 /\ Anim.loop /\ Uniform(Anim)
    /\ Anim.frame_duration > epsilon /\ Anim.frame_count = 2
    /\ update(Ctl, Anim.frame_duration).current_frame_index = 1
    /\ update_run(Ctl, max_steps * Anim.frame_duration).safety = max_steps

(* C5, as claimed: right after play() of a one-shot of N frames of         *)
(* duration d > 0, updates of k*d in all with k >= N end on frame N-1,     *)
(* finished and not playing; updates of less than N*d in all leave it      *)
(* unfinished.                                                             *)
C5_OneShot ==
    (JustPlayed /\ ~Anim.loop /\ Uniform(Anim) /\ Anim.frame_duration > 0) =>
        \A dt1, dt2 \in DTs :
            LET c == update(update(Ctl, dt1), dt2)
                d == Anim.frame_duration
                N == Anim.frame_count
            IN  /\ ((dt1 + dt2) % d = 0 /\ dt1 + dt2 >= N * d) =>
                       /\ c.current_frame_index = N - 1
                       /\ is_finished(c) /\ ~is_playing(c)
                /\ dt1 + dt2 < N * d => ~is_finished(c)

(* C5, amended: at speed 1, updates of k*d in all with k >= N end on       *)
(* frame N-1, finished and not playing; updates of less than N*d - epsilon *)
(* in all leave it unfinished.                                             *)
C5_OneShotWithinEpsilon ==
    (JustPlayed /\ playback_speed = 1 /\ ~Anim.loop /\ Uniform(Anim)
        /\ Anim.frame_duration > 0) =>
        \A dt1, dt2 \in DTs :
            LET c == update(update(Ctl, dt1), dt2)
                d == Anim.frame_duration
                N == Anim.frame_count
            IN  /\ ((dt1 + dt2) % d = 0 /\ dt1 + dt2 >= N * d) =>
                       /\ c.current_frame_index = N - 1
                       /\ is_finished(c) /\ ~is_playing(c)
                /\ dt1 + dt2 + epsilon < N * d => ~is_finished(c)

(* A one-shot of several frames has been played to its end *)
C5_Witness ==
    /\ current_anim # Null /\ ~Anim.loop /\ Uniform(Anim)
    /\ Anim.frame_duration > 0 /\ Anim.frame_count >= 2
    /\ playback_speed = 1
    /\ finished /\ ~playing /\ current_frame_index = Anim.frame_count - 1

(* C6 (checked under SpecStall): the stepping loop of every update(dt)     *)
(* ends after at most max_steps frame advances, and a frame of             *)
(* non-positive duration is passed by the first pass of the loop without   *)
(* consuming time.                                                         *)
C6_BoundedStepping ==
    update_enabled(Ctl) =>
        \A dt \in StallDTs :
            LET r == update_run(Ctl, dt)
                c1 == [Ctl EXCEPT !.current_frame_time =
                                      @ + dt * playback_speed]
                s1 == update_step([c |-> c1,
                          frame_duration |-> get_current_frame_duration(c1),
                          safety |-> 0, done |-> FALSE,
                          fired |-> NoCallbacks])
            IN  /\ r.done /\ r.safety <= max_steps
                /\ get_current_frame_duration(Ctl) <= 0 =>
                      /\ r.safety >= 1
                      /\ s1.safety = 1
                      /\ s1.c.current_frame_time = c1.current_frame_time
                      /\ \/ s1.c.current_frame_index
                               = (current_frame_index + 1) % Anim.frame_count
                         \/ s1.c.finished

(* A loop of frames of non-positive duration is playing: an update() of    *)
(* it runs into the cap                                                    *)
C6_Witness ==
    /\ update_enabled(Ctl) /\ NonPositiveLoop(Anim)
    /\ update_run(Ctl, 0).safety = max_steps

(* C7: finished implies not playing. *)
C7_FinishedNotPlaying == finished => ~playing

(* An animation has been played to its end and is still bound *)
C7_Witness == finished /\ ~playing /\ current_anim # Null

(* C8: while an animation is bound, 0 <= frame_index < frame_count. *)
C8_FrameIndexInRange ==
    current_anim # Null =>
        (0 <= current_frame_index /\ current_frame_index < Anim.frame_count)

(* A one-shot of several frames has been stepped past its end and stands  *)
(* clamped on its last frame                                               *)
C8_Witness ==
    /\ current_anim = "idle" /\ Anim.frame_count >= 2 /\ ~Anim.loop
    /\ current_frame_index = Anim.frame_count - 1
    /\ finished

(* C9: play(name) without restart of the animation that is bound and       *)
(* playing changes nothing.                                                *)
C9_PlayIdempotent ==
    (current_anim # Null /\ playing) =>
        play(Ctl, current_anim_name, FALSE) = Ctl

(* The bound animation is part-way through, paused *)
C9_Witness ==
    /\ current_anim # Null /\ playing /\ paused
    /\ current_frame_index > 0 /\ current_frame_time > 0

(* C10, as claimed: stop() then play(name) gives the playback state of a   *)
(* new controller after its first play(name).                              *)
C10_StopPlayAsNew ==
    \A name \in PlayNames :
        play(stop(Ctl), name, FALSE) = play(NewController, name, FALSE)

(* C10, amended: the same but for the speed multiplier, which stop() and   *)
(* play() leave as it was last set.                                        *)
C10_StopPlayAsNewButSpeed ==
    \A name \in PlayNames :
        play(stop(Ctl), name, FALSE) =
            [play(NewController, name, FALSE)
                EXCEPT !.playback_speed = playback_speed]

(* A paused controller part-way through an animation at another speed *)
C10_Witness ==
    /\ current_anim # Null /\ paused /\ playback_speed # 1
    /\ current_frame_index > 0 /\ current_frame_time # 0

----------------------------------------------------------------------------
(* update() with no time, and update() behind its guard *)

(* C11, as claimed: in every reachable controller state update(0.0)        *)
(* leaves frame_index as it is and invokes no end, loop or frame-change    *)
(* callback.                                                               *)
C11_ZeroUpdateNeverSteps ==
    /\ update(Ctl, 0).current_frame_index = current_frame_index
    /\ update_callbacks(Ctl, 0) = NoCallbacks

(* C11, amended: update(0.0) leaves frame_index as it is and invokes no    *)
(* callback in every reachable controller state whose current frame has a  *)
(* positive duration that the elapsed time in the frame is more than       *)
(* epsilon short of.                                                       *)
C11_ZeroUpdateWithinFrame ==
    (update_enabled(Ctl) =>
        /\ get_current_frame_duration(Ctl) > 0
        /\ current_frame_time + epsilon < get_current_frame_duration(Ctl)) =>
        /\ update(Ctl, 0) = Ctl
        /\ update_callbacks(Ctl, 0) = NoCallbacks

(* A playing animation is part of the way through a later frame, with      *)
(* more than epsilon of that frame left                                    *)
C11_Witness ==
    /\ update_enabled(Ctl)
    /\ current_frame_index > 0 /\ current_frame_time > 0
    /\ current_frame_time + epsilon < get_current_frame_duration(Ctl)
    /\ update(Ctl, 0) = Ctl

(* C12: when the controller is not playing, or is paused, or has finished, *)
(* or has no animation bound, update(dt) changes no field and invokes no   *)
(* callback; while paused, no update(dt) with dt >= 0 moves frame_index.   *)
C12_UpdateGuard ==
    \A dt \in DTs :
        /\ (~playing \/ paused \/ finished \/ current_anim = Null) =>
              /\ update(Ctl, dt) = Ctl
              /\ update_callbacks(Ctl, dt) = NoCallbacks
        /\ paused =>
              update(Ctl, dt).current_frame_index = current_frame_index

(* A playing animation is paused at a point from which the same update(),  *)
(* once resumed, moves on to another frame                                 *)
C12_Witness ==
    /\ playing /\ paused /\ ~finished /\ current_anim # Null
    /\ \E dt \in DTs :
          /\ update(Ctl, dt) = Ctl
          /\ update(resume(Ctl), dt).current_frame_index # current_frame_index

----------------------------------------------------------------------------
(* Variable frame timing *)

(* The duration the claim gives frame i: the override where the override   *)
(* list covers index i, the default of the animation otherwise             *)
ResolvedDuration(anim, i) ==
    IF i + 1 <= Len(anim.frame_durations)
    THEN anim.frame_durations[i + 1] ELSE anim.frame_duration

(* The playback state after update(d_0), ..., update(d_(k-1)) from c,      *)
(* d_i the resolved duration of frame i of the animation bound in c        *)
RECURSIVE PlayedThrough(_, _)
PlayedThrough(c, k) ==
    IF k = 0 THEN c
    ELSE update(PlayedThrough(c, k - 1),
                ResolvedDuration(animations[c.current_anim], k - 1))

(* The loop callbacks invoked over those k calls *)
RECURSIVE LoopsThrough(_, _)
LoopsThrough(c, k) ==
    IF k = 0 THEN 0
    ELSE LoopsThrough(c, k - 1)
         + update_callbacks(
               PlayedThrough(c, k - 1),
               ResolvedDuration(animations[c.current_anim], k - 1)
           ).on_animation_loop

(* From frame 0 of the looping three-frame animation just played at speed  *)
(* 1: no update(dt) more than epsilon short of the duration of the frame   *)
(* shown leaves that frame, and update(d0), update(d1), update(d2) show    *)
(* frame 1, frame 2, frame 0 and invoke the loop callback once             *)
HeldThenStepped ==
    /\ \A k \in 0..2 : \A dt \in DTs :
          dt + epsilon < ResolvedDuration(Anim, k) =>
              update(PlayedThrough(Ctl, k), dt).current_frame_index = k
    /\ \A k \in 1..3 :
          PlayedThrough(Ctl, k).current_frame_index = k % 3
    /\ LoopsThrough(Ctl, 3) = 1

ThreeFrameLoopPlayed ==
    JustPlayed /\ playback_speed = 1 /\ Anim.loop /\ Anim.frame_count = 3

(* C13, as claimed: each frame is held for its own resolved duration (the  *)
(* override where the override list covers the frame, the default          *)
(* otherwise); for a looping animation with durations [d0,d1,d2], update(d0),*)
(* update(d1), update(d2) give frame 1, frame 2, frame 0, with the loop    *)
(* callback invoked exactly once.                                          *)
C13_VariableTimingAnyDurations ==
    ThreeFrameLoopPlayed => HeldThenStepped

(* C13, amended: the same for durations d0, d1, d2 each greater than       *)
(* epsilon.                                                                *)
C13_VariableTiming ==
    (ThreeFrameLoopPlayed
        /\ \A i \in 0..2 : ResolvedDuration(Anim, i) > epsilon) =>
        HeldThenStepped

(* A looping three-frame animation whose override list covers only some    *)
(* frames, and differs from the default, has just been played and goes     *)
(* round once                                                              *)
C13_Witness ==
    /\ ThreeFrameLoopPlayed
    /\ \A i \in 0..2 : ResolvedDuration(Anim, i) > epsilon
    /\ Len(Anim.frame_durations) \in {1, 2}
    /\ ResolvedDuration(Anim, 0) # ResolvedDuration(Anim, 2)
    /\ PlayedThrough(Ctl, 3).current_frame_index = 0
    /\ PlayedThrough(Ctl, 2).current_frame_index = 2

----------------------------------------------------------------------------
(* Requests to the state machine *)

(* C14: transition_to(target, force = true) to a registered target sets    *)
(* current_state_name to target, plays its animation from the start and    *)
(* leaves no request pending, whatever the priorities, whether or not a    *)
(* request was pending, and also when target is the current state.         *)
C14_ForcedTransition ==
    \A target \in DOMAIN states :
        LET m == transition_to(Machine, target, TRUE)
        IN  /\ m.current_state_name = target
            /\ m.pending_state_name = Empty
            /\ m.c = play(Ctl, target, TRUE)
            /\ m.states = states /\ m.transitions = transitions

(* A request is pending in a registered state that outranks a registered   *)
(* target: the target can be forced, and so can the current state          *)
C14_Witness ==
    /\ pending_state_name # Empty
    /\ current_state_name \in DOMAIN states
    /\ \E target \in DOMAIN states :
          /\ states[target] < states[current_state_name]
          /\ transition_to(Machine, target, TRUE).current_state_name = target
    /\ transition_to(Machine, current_state_name, TRUE).pending_state_name
           = Empty

(* C15: an unforced transition_to(target) to a registered target other     *)
(* than the current state executes at once exactly when the priority of    *)
(* target is at least that of the current state; otherwise it changes      *)
(* neither the state nor the controller and records target as pending.     *)
C15_Arbitration ==
    \A target \in DOMAIN states \ {current_state_name} :
        LET m == transition_to(Machine, target, FALSE)
        IN  /\ m.current_state_name = target
                   <=> states[target] >= Priority(current_state_name)
            /\ IF states[target] >= Priority(current_state_name)
               THEN /\ m.c = play(Ctl, target, TRUE)
                    /\ m.pending_state_name = pending_state_name
               ELSE /\ m.c = Ctl
                    /\ m.current_state_name = current_state_name
                    /\ m.pending_state_name = target

(* The machine is in a registered state and another registered state has   *)
(* the same priority: a request for it goes through                        *)
C15_Witness ==
    /\ current_state_name \in DOMAIN states
    /\ \E target \in DOMAIN states \ {current_state_name} :
          /\ states[target] = states[current_state_name]
          /\ transition_to(Machine, target, FALSE).current_state_name = target

----------------------------------------------------------------------------
(* The pending slot *)

(* C16 (checked under SpecQueue): the machine holds one pending name, and  *)
(* of two unforced requests denied one after the other the slot keeps the  *)
(* second: whatever was pending before, and the target denied first, are   *)
(* gone, and neither the state nor the controller has changed.             *)
C16_SingleSlot ==
    /\ pending_state_name \in DOMAIN states \cup {Empty}
    /\ \A t1, t2 \in DOMAIN states :
          (/\ states[t1] < Priority(current_state_name)
           /\ states[t2] < Priority(current_state_name)) =>
              LET m1 == transition_to(Machine, t1, FALSE)
                  m2 == transition_to(m1, t2, FALSE)
              IN  /\ m1.pending_state_name = t1
                  /\ m2.pending_state_name = t2
                  /\ m2.current_state_name = current_state_name
                  /\ m2.c = Ctl

(* A denied request is pending and another state below the current one is *)
(* registered: a request for it is denied too and takes the slot           *)
C16_Witness ==
    /\ pending_state_name # Empty
    /\ states[pending_state_name] < Priority(current_state_name)
    /\ \E t2 \in DOMAIN states \ {pending_state_name} :
          /\ states[t2] < Priority(current_state_name)
          /\ transition_to(Machine, t2, FALSE).pending_state_name = t2

(* C17, as claimed (checked under SpecDrain): once a denied target is      *)
(* pending, repeated update(dt) with dt > 0 eventually makes it the        *)
(* current state.                                                          *)
C17_DeniedNeverLost ==
    \A t \in QueueNames :
        (pending_state_name = t) ~> (current_state_name = t)

(* C17, amended (checked under SpecDrain): once a denied target is pending *)
(* while the controller is playing a non-looping animation, unpaused and   *)
(* at positive speed, and no other request or automatic transition         *)
(* intervenes, repeated update(dt) with dt > 0 eventually makes it the     *)
(* current state.                                                          *)
C17_DeniedDrainsAfterOneShot ==
    \A t \in QueueNames :
        (/\ pending_state_name = t
         /\ update_enabled(Ctl) /\ playback_speed > 0
         /\ ~animations[current_anim].loop)
            ~> (current_state_name = t)

(* The one-shot has been played to its end with a denied request pending:  *)
(* the update() that ends it is about to execute the request               *)
C17_Witness ==
    /\ pending_state_name # Empty
    /\ update_enabled(Ctl) /\ ~Anim.loop
    /\ current_frame_index = Anim.frame_count - 1
    /\ \E dt \in QueueDTs \ {0} :
          \A pv \in PredicateValues(transitions) :
              machine_update(Machine, dt, pv).current_state_name
                  = pending_state_name

----------------------------------------------------------------------------
(* One update() of the state machine *)

(* C18: in one update() the pending request is executed, and the slot      *)
(* emptied, exactly when no edge fired in that call, a request is pending  *)
(* and the controller is finished after its step; the call then does       *)
(* nothing else, and a call in which an edge fired executes that edge      *)
(* alone and leaves the slot as it was.                                    *)
C18_ScanOrDrain ==
    \A dt \in MachineDTs, pv \in PredicateValues(transitions) :
        LET c1 == update(Ctl, dt)
            fire == Matching(c1, pv)
            m == machine_update(Machine, dt, pv)
            drained == pending_state_name # Empty
                          /\ m.pending_state_name = Empty
        IN  /\ m.pending_state_name \in {pending_state_name, Empty}
            /\ drained <=> (fire = {} /\ pending_state_name # Empty
                                      /\ c1.finished)
            /\ drained => /\ m.current_state_name = pending_state_name
                          /\ m.c = play(c1, pending_state_name, TRUE)
            /\ fire # {} =>
                  m.c = play(c1, transitions[Min(fire)].to_state, TRUE)
            /\ (fire = {} /\ ~drained) =>
                  m.c = c1 /\ m.current_state_name = current_state_name

(* An edge fires into a state without an animation, which leaves the       *)
(* controller finished, while a request is pending: the request stays      *)
C18_Witness ==
    /\ pending_state_name # Empty
    /\ \E dt \in MachineDTs, pv \in PredicateValues(transitions) :
          LET c1 == update(Ctl, dt)
              m == machine_update(Machine, dt, pv)
          IN  /\ Matching(c1, pv) # {}
              /\ m.c.finished
              /\ m.current_state_name # current_state_name
              /\ m.pending_state_name = pending_state_name

(* C19: in the update(dt) whose controller step ends the animation, an     *)
(* OnFinish edge registered first among the edges leaving the current      *)
(* state is executed, and with no edge leaving the current state a pending *)
(* request is executed: in that very call, not the next.                   *)
C19_SameCall ==
    \A dt \in MachineDTs, pv \in PredicateValues(transitions) :
        LET c1 == update(Ctl, dt)
            m == machine_update(Machine, dt, pv)
            leaving == {i \in 1..Len(transitions) :
                          transitions[i].from_state = current_state_name}
        IN  (~finished /\ c1.finished) =>
                /\ \A i \in leaving :
                      (/\ i = Min(leaving)
                       /\ transitions[i].condition = OnFinish
                       /\ transitions[i].predicate => pv[i]) =>
                          /\ m.current_state_name = transitions[i].to_state
                          /\ m.c = play(c1, transitions[i].to_state, TRUE)
                /\ (leaving = {} /\ pending_state_name # Empty) =>
                      /\ m.current_state_name = pending_state_name
                      /\ m.c = play(c1, pending_state_name, TRUE)

(* The one-shot is on its last frame with an OnFinish edge to another      *)
(* state registered first: the update() that ends it takes the edge        *)
C19_Witness ==
    /\ update_enabled(Ctl) /\ ~Anim.loop
    /\ Len(transitions) >= 1
    /\ transitions[1].condition = OnFinish
    /\ transitions[1].from_state = current_state_name
    /\ transitions[1].to_state # current_state_name
    /\ \E dt \in MachineDTs, pv \in PredicateValues(transitions) :
          /\ update(Ctl, dt).finished
          /\ machine_update(Machine, dt, pv).current_state_name
                = transitions[1].to_state

(* Machine m is in state target with the animation of that name playing    *)
(* from its start                                                          *)
Restarted(m, target) ==
    /\ m.current_state_name = target
    /\ m.c.current_anim = target /\ m.c.current_anim_name = target
    /\ m.c.current_frame_index = 0 /\ m.c.current_frame_time = 0
    /\ m.c.playing /\ ~m.c.paused /\ ~m.c.finished

(* Every transition executed from the current state satisfies After(m,     *)
(* target, c), m the machine it leaves and c the controller it found: a    *)
(* forced request, a granted request, the edge an update() fires and the   *)
(* pending request an update() drains                                      *)
EveryExecuted(After(_, _, _)) ==
    /\ \A target \in DOMAIN states :
          After(transition_to(Machine, target, TRUE), target, Ctl)
    /\ \A target \in DOMAIN states \ {current_state_name} :
          states[target] >= Priority(current_state_name) =>
              After(transition_to(Machine, target, FALSE), target, Ctl)
    /\ \A dt \in MachineDTs, pv \in PredicateValues(transitions) :
          LET c1 == update(Ctl, dt)
              fire == Matching(c1, pv)
              m == machine_update(Machine, dt, pv)
          IN  /\ fire # {} =>
                    After(m, transitions[Min(fire)].to_state, c1)
              /\ (fire = {} /\ pending_state_name # Empty /\ c1.finished) =>
                    After(m, pending_state_name, c1)

RestartedAlways(m, target, c) == Restarted(m, target)

RestartedIfAnimated(m, target, c) ==
    IF target \in DOMAIN animations
    THEN Restarted(m, target)
    ELSE m.current_state_name = target /\ m.c = stop(c)

(* C20, as claimed: every executed transition (forced, requested,          *)
(* automatic or drained) leaves current_state_name = target and the        *)
(* animation named target playing from frame 0 with no time elapsed, not   *)
(* finished, also when it re-enters the current state.                     *)
C20_ExecutedRestartsAlways == EveryExecuted(RestartedAlways)

(* C20, amended: the same whenever the atlas holds an animation named      *)
(* target; when it holds none, current_state_name is target and the        *)
(* controller is left stopped.                                             *)
C20_ExecutedRestarts == EveryExecuted(RestartedIfAnimated)

(* The current state is part of the way through its animation and is       *)
(* re-entered by force                                                     *)
C20_Witness ==
    /\ current_state_name \in DOMAIN states
    /\ current_anim_name = current_state_name
    /\ current_frame_index > 0
    /\ Restarted(transition_to(Machine, current_state_name, TRUE),
                 current_state_name)

----------------------------------------------------------------------------
(* Callbacks *)

(* C21: the update() that steps a non-looping animation past its last      *)
(* frame invokes the end callback once, leaves frame_index at N-1 and      *)
(* advances no further in that call whatever time remains; an update()     *)
(* that does not reach the end does not invoke it; and once finished,      *)
(* update() changes nothing and invokes no callback.                       *)
C21_EndOnce ==
    (update_enabled(Ctl) /\ ~Anim.loop) =>
        \A dt \in DTs :
            LET r == update_run(Ctl, dt)
                N == Anim.frame_count
            IN  /\ r.fired.on_animation_end = IF r.c.finished THEN 1 ELSE 0
                /\ r.fired.on_animation_loop = 0
                /\ r.c.finished =>
                      /\ r.c.current_frame_index = N - 1
                      /\ ~r.c.playing
                      /\ r.safety = N - current_frame_index
                      /\ r.fired.on_frame_change
                            = N - 1 - current_frame_index
                      /\ \A dt2 \in DTs :
                            /\ update(r.c, dt2) = r.c
                            /\ update_callbacks(r.c, dt2) = NoCallbacks

(* A one-shot of several frames is playing before its last frame, and one  *)
(* update() ends it with time to spare                                     *)
C21_Witness ==
    /\ update_enabled(Ctl) /\ ~Anim.loop
    /\ current_frame_index < Anim.frame_count - 1
    /\ \E dt \in DTs :
          LET r == update_run(Ctl, dt)
          IN  /\ r.c.finished /\ r.c.current_frame_time > epsilon
              /\ r.fired.on_animation_end = 1

(* C22, as claimed (checked under SpecStall): right after play() of a loop *)
(* of N frames of uniform duration d > 0 at speed 1, one update(k*d)       *)
(* invokes the loop callback floor(k/N) times.                             *)
C22_LoopCallbackAnyK ==
    (JustPlayed /\ playback_speed = 1 /\ Anim.loop /\ Uniform(Anim)
        /\ Anim.frame_duration > 0) =>
        \A dt \in StallDTs :
            dt % Anim.frame_duration = 0 =>
                update_callbacks(Ctl, dt).on_animation_loop
                    = (dt \div Anim.frame_duration) \div Anim.frame_count

(* C22, amended (checked under SpecStall): the same for d > epsilon and    *)
(* 0 <= k <= max_steps.                                                    *)
C22_LoopCallbackUpToCap ==
    (JustPlayed /\ playback_speed = 1 /\ Anim.loop /\ Uniform(Anim)
        /\ Anim.frame_duration > epsilon) =>
        \A dt \in StallDTs :
            (dt % Anim.frame_duration = 0
                /\ dt \div Anim.frame_duration <= max_steps) =>
                update_callbacks(Ctl, dt).on_animation_loop
                    = (dt \div Anim.frame_duration) \div Anim.frame_count

(* A loop of two frames just played, which a stall of max_steps frames     *)
(* takes round max_steps / 2 times, the callback invoked each time         *)
C22_Witness ==
    /\ JustPlayed /\ playback_speed = 1 /\ Anim.loop /\ Uniform(Anim)
    /\ Anim.frame_duration > epsilon /\ Anim.frame_count = 2
    /\ update_callbacks(Ctl, Anim.frame_duration).on_animation_loop = 0
    /\ update_callbacks(Ctl, max_steps * Anim.frame_duration)
           .on_animation_loop = max_steps \div 2

(* C23: one update() invokes the frame-change callback once for every      *)
(* advance that leaves frame_index with another value, passing the new     *)
(* index, in the order the frames are passed: the indices following the    *)
(* current one, round the loop if the animation loops; an advance that     *)
(* wraps a single-frame loop from 0 to 0, or ends a non-looping animation  *)
(* on its last frame, does not invoke it.                                  *)
C23_FrameChange ==
    update_enabled(Ctl) =>
        \A dt \in DTs :
            LET r == update_run(Ctl, dt)
                N == Anim.frame_count
                passed == r.fired.on_frame_change_index
            IN  /\ r.fired.on_frame_change = Len(passed)
                /\ Len(passed) =
                      IF N = 1 THEN 0
                      ELSE r.safety - r.fired.on_animation_end
                /\ \A j \in 1..Len(passed) :
                      passed[j] = (current_frame_index + j) % N
                /\ (N = 1 /\ Anim.loop) =>
                      r.fired.on_animation_loop = r.safety

(* A one-shot of three frames or more on its first frame, which one        *)
(* update() plays to its end: the callback sees frame 1, then frame 2      *)
C23_Witness ==
    /\ update_enabled(Ctl) /\ ~Anim.loop
    /\ Anim.frame_count >= 3 /\ current_frame_index = 0
    /\ \E dt \in DTs :
          LET r == update_run(Ctl, dt)
          IN  /\ r.c.finished
              /\ r.fired.on_frame_change_index
                    = [j \in 1..(Anim.frame_count - 1) |-> j]

----------------------------------------------------------------------------
(* reset(), play(), stop(), pause() and resume() *)

(* C24, as claimed: reset() sets frame index and elapsed time to 0 and     *)
(* leaves playing and finished as they were, in every controller state.    *)
C24_ResetKeepsFlags ==
    LET c == reset(Ctl)
    IN  /\ c.current_frame_index = 0 /\ c.current_frame_time = 0
        /\ c.playing = playing /\ c.finished = finished

(* C24, amended: reset() sets frame index and elapsed time to 0, clears    *)
(* finished, and leaves playing and every other field as they were.        *)
C24_ResetClearsFinished ==
    LET c == reset(Ctl)
    IN  /\ c.current_frame_index = 0 /\ c.current_frame_time = 0
        /\ ~c.finished
        /\ c.playing = playing /\ c.paused = paused
        /\ c.current_anim = current_anim
        /\ c.current_anim_name = current_anim_name
        /\ c.playback_speed = playback_speed

(* A one-shot has been played to its end on a later frame, and reset()     *)
(* leaves it neither playing nor finished                                  *)
C24_Witness ==
    /\ finished /\ ~playing /\ current_anim # Null
    /\ current_frame_index > 0
    /\ ~reset(Ctl).finished /\ ~reset(Ctl).playing

(* C25: play(name, restart) with a name of the atlas, unless name is the   *)
(* animation bound and playing and restart is false, leaves frame index 0, *)
(* elapsed time 0, playing, not paused and not finished; so does           *)
(* play(name, false) of the bound animation that has finished.             *)
C25_PlayStartsAtZero ==
    \A name \in DOMAIN animations, restart \in BOOLEAN :
        ~(current_anim = name /\ playing /\ ~restart) =>
            LET c == play(Ctl, name, restart)
            IN  /\ c.current_frame_index = 0 /\ c.current_frame_time = 0
                /\ c.playing /\ ~c.paused /\ ~c.finished

(* The state queries of controller c other than is_finished() *)
QueriesButFinished(c) ==
    <<is_playing(c), is_paused(c), has_animation(c),
      get_current_animation_name(c), get_current_frame_index(c),
      get_frame_count(c)>>

(* stop() has unbound the animation and left c idle: not playing, not      *)
(* paused, finished, on frame 0 with no time elapsed                       *)
Stopped(c) ==
    /\ c.current_anim = Null /\ c.current_anim_name = Empty
    /\ ~c.playing /\ ~c.paused /\ c.finished
    /\ c.current_frame_index = 0 /\ c.current_frame_time = 0

(* C26, as claimed: stop() from any state leaves the controller unbound,   *)
(* not playing, not paused, finished and on frame 0, and the state queries *)
(* of the stopped controller equal those of a new one.                     *)
C26_StopAsConstructed ==
    /\ Stopped(stop(Ctl))
    /\ QueriesButFinished(stop(Ctl)) = QueriesButFinished(NewController)
    /\ is_finished(stop(Ctl)) = is_finished(NewController)

(* C26, amended: the same but for is_finished(), which is true after       *)
(* stop() and false on a new controller.                                   *)
C26_StopAsConstructedButFinished ==
    /\ Stopped(stop(Ctl))
    /\ QueriesButFinished(stop(Ctl)) = QueriesButFinished(NewController)
    /\ is_finished(stop(Ctl)) /\ ~is_finished(NewController)

(* A controller part of the way through an animation, playing: stop()      *)
(* unbinds it and rewinds                                                  *)
C26_Witness ==
    /\ is_playing(Ctl) /\ has_animation(Ctl)
    /\ current_frame_index > 0 /\ current_frame_time # 0
    /\ Stopped(stop(Ctl))

(* C28: play(name) with a name the atlas does not hold, from any state,    *)
(* leaves the controller exactly as stop() does: no animation, not         *)
(* playing, no current frame.                                              *)
C28_LookupMiss ==
    \A name \in PlayNames \ DOMAIN animations, restart \in BOOLEAN :
        LET c == play(Ctl, name, restart)
        IN  /\ c = stop(Ctl)
            /\ ~has_animation(c) /\ ~is_playing(c)
            /\ get_current_frame(c) = Null

(* A controller playing part of the way through an animation, which a      *)
(* play() of an unknown name stops                                         *)
C28_Witness ==
    /\ is_playing(Ctl) /\ get_current_frame(Ctl) # Null
    /\ current_frame_index > 0
    /\ \E name \in PlayNames \ DOMAIN animations :
          ~has_animation(play(Ctl, name, FALSE))

(* C29: transition_to(target) with a target that is not registered,        *)
(* forced or not, or with the current state as target and force = false,   *)
(* leaves the state, the pending slot and the controller as they were.     *)
C29_RequestNoOp ==
    \A target \in TargetNames, force \in BOOLEAN :
        (target \notin DOMAIN states
            \/ (target = current_state_name /\ ~force)) =>
            transition_to(Machine, target, force) = Machine

(* The machine is in a registered state with a request pending and its     *)
(* animation under way; a target that is not registered exists             *)
C29_Witness ==
    /\ current_state_name \in DOMAIN states
    /\ pending_state_name # Empty
    /\ playing /\ current_frame_index > 0
    /\ \E target \in TargetNames \ DOMAIN states :
          transition_to(Machine, target, TRUE) = Machine

(* C30: get_progress() is frame_index / (frame_count - 1) when an          *)
(* animation of two frames or more is bound, and 0 when the bound          *)
(* animation has one frame or none, or no animation is bound.              *)
C30_Progress ==
    LET p == get_progress(Ctl)
    IN  IF current_anim # Null /\ Anim.frame_count >= 2
        THEN p = <<current_frame_index, Anim.frame_count - 1>>
        ELSE p[1] = 0 /\ p[2] # 0

----------------------------------------------------------------------------
(* pause() and resume() *)

(* pause() and resume() change the paused flag alone, and only while       *)
(* playing                                                                 *)
PausedFlagOnly ==
    /\ pause(Ctl) = IF playing THEN [Ctl EXCEPT !.paused = TRUE] ELSE Ctl
    /\ resume(Ctl) = IF playing THEN [Ctl EXCEPT !.paused = FALSE] ELSE Ctl

(* C27, as claimed (checked under SpecReentrant): pause() and resume()     *)
(* change the paused flag alone, and only while playing, and paused        *)
(* implies playing in every reachable state.                               *)
C27_PausedImpliesPlaying ==
    /\ PausedFlagOnly
    /\ paused => playing

(* C27, amended (checked under SpecReentrant): pause() and resume() change *)
(* the paused flag alone, and only while playing, and no call takes the    *)
(* controller out of the states where paused implies playing, except an    *)
(* update() one of whose callbacks calls pause().                          *)
C27_PausedWhilePlaying ==
    /\ PausedFlagOnly
    /\ (paused => playing) =>
          \A c \in {pause(Ctl), resume(Ctl), stop(Ctl), reset(Ctl)}
                  \cup {set_speed(Ctl, speed) : speed \in Speeds}
                  \cup {play(Ctl, name, restart) :
                            name \in PlayNames, restart \in BOOLEAN}
                  \cup {update_calling(Ctl, dt, cb) :
                            dt \in DTs,
                            cb \in [on_animation_end : Calls \ {CallPause},
                                    on_animation_loop : Calls \ {CallPause},
                                    on_frame_change : Calls \ {CallPause}]} :
              c.paused => c.playing

(* An animation paused part of the way through, which resume() sets going, *)
(* and beside it the finished controller that pause() leaves alone         *)
C27_Witness ==
    /\ playing /\ paused /\ current_frame_index > 0
    /\ ~resume(Ctl).paused
    /\ pause([Ctl EXCEPT !.playing = FALSE, !.paused = FALSE,
                         !.finished = TRUE]).paused = FALSE

----------------------------------------------------------------------------
(* The current state of the state machine *)

(* C31, as claimed (checked under SpecMachine): current_state_name is      *)
(* empty or the name of a state registered with add_state.                 *)
C31_CurrentRegistered ==
    current_state_name = Empty \/ current_state_name \in DOMAIN states

(* Two registered states of equal priority joined by predicate-less        *)
(* Immediate edges in both directions, the machine being in one of them    *)
FlipFlop ==
    /\ Len(transitions) = 2
    /\ {transitions[1], transitions[2]}
          = {Edge("idle", "attack", Immediate, FALSE),
             Edge("attack", "idle", Immediate, FALSE)}
    /\ {"idle", "attack"} \subseteq DOMAIN states
    /\ states["idle"] = states["attack"]
    /\ current_state_name \in {"idle", "attack"}

OtherState(name) == IF name = "idle" THEN "attack" ELSE "idle"

(* C32 (checked under SpecEdges): with two equal-priority states joined by *)
(* predicate-less Immediate edges both ways, every update() ends in the    *)
(* other state, having restarted its animation once on top of the          *)
(* controller step, and the update() after it ends in the first state      *)
(* again: one flip per call.                                               *)
C32_FlipPerTick ==
    FlipFlop =>
        \A dt \in MachineDTs, pv \in PredicateValues(transitions) :
            LET other == OtherState(current_state_name)
                m == machine_update(Machine, dt, pv)
                m2 == machine_update(m, dt, pv)
            IN  /\ m.current_state_name = other
                /\ m.c = play(update(Ctl, dt), other, TRUE)
                /\ m.pending_state_name = pending_state_name
                /\ m2.current_state_name = current_state_name
                /\ m2.c = play(update(m.c, dt), current_state_name, TRUE)

(* The machine has flipped to "attack", whose animation is under way, and  *)
(* the next update() flips it back                                         *)
C32_Witness ==
    /\ FlipFlop
    /\ current_state_name = "attack" /\ current_anim_name = "attack"
    /\ playing /\ current_frame_index = 0
    /\ machine_update(Machine, 3, <<>>).current_state_name = "idle"

----------------------------------------------------------------------------
(* Callbacks that call play() and stop(), checked under SpecReentrant *)

(* The callbacks that call play() or stop() or nothing *)
PlayStopCallbacks ==
    [on_animation_end : Calls \ {CallPause},
     on_animation_loop : Calls \ {CallPause},
     on_frame_change : Calls \ {CallPause}]

(* One callback set for all three events *)
SameCallbacks == {cb \in PlayStopCallbacks :
                    /\ cb.on_animation_end = cb.on_animation_loop
                    /\ cb.on_animation_loop = cb.on_frame_change}

(* A stall of more than max_steps frames *)
ReentrantStall == (max_steps + 1) * 3

(* The loop of update() has ended within the cap and left the controller   *)
(* consistent                                                              *)
SteppedSoundly(r) ==
    /\ r.done /\ r.safety <= max_steps
    /\ r.c.finished => ~r.c.playing
    /\ r.c.current_anim # Null =>
          /\ 0 <= r.c.current_frame_index
          /\ r.c.current_frame_index
                < animations[r.c.current_anim].frame_count

(* C33 (checked under SpecReentrant): whichever of play() and stop() the   *)
(* end, loop and frame-change callbacks call during update(), the loop of  *)
(* update() ends within max_steps passes and leaves finished => ~playing   *)
(* and the frame index within the animation that is bound on return.       *)
C33_ReentrantStepping ==
    update_enabled(Ctl) =>
        /\ \A dt \in DTs, cb \in PlayStopCallbacks :
              SteppedSoundly(update_run_calling(Ctl, dt, cb))
        /\ \A cb \in SameCallbacks :
              SteppedSoundly(update_run_calling(Ctl, ReentrantStall, cb))

(* The one-shot is on its last frame; its end callback plays it again      *)
(* without restart, over and over through a stall, up to the cap, and a    *)
(* frame-change callback of the loop swaps in the shorter animation        *)
C33_Witness ==
    /\ update_enabled(Ctl)
    /\ current_anim = "attack" /\ current_frame_index = 1
    /\ LET cb == [on_animation_end |-> CallReplayAttack,
                  on_animation_loop |-> CallReplayAttack,
                  on_frame_change |-> CallReplayAttack]
           r == update_run_calling(Ctl, ReentrantStall, cb)
       IN  r.safety = max_steps /\ r.c.playing /\ ~r.c.finished
    /\ LET cb == [on_animation_end |-> CallNothing,
                  on_animation_loop |-> CallNothing,
                  on_frame_change |-> CallPlayAttack]
           c == update_calling(play(Ctl, "idle", TRUE), 6, cb)
       IN  c.current_anim = "attack" /\ c.current_frame_index = 0

----------------------------------------------------------------------------
(* The conditions of the edges, checked under SpecEdges *)

(* C34: the edge update() takes is the first in registration order whose   *)
(* source is the current state, whose predicate is absent or returns true  *)
(* and whose condition holds: Immediate always, OnFinish iff the           *)
(* controller is finished after its step, CanInterrupt iff the destination *)
(* is registered with a priority not below the current one. No edge is     *)
(* taken when there is none such, and a CanInterrupt edge to a registered  *)
(* destination of lower priority is never the one taken.                   *)
C34_EdgeConditions ==
    \A dt \in MachineDTs, pv \in PredicateValues(transitions) :
        LET c1 == update(Ctl, dt)
            taken == scan_transitions([Machine EXCEPT !.c = c1], pv, 1)
            fire == Matching(c1, pv)
        IN  /\ taken = IF fire = {} THEN 0 ELSE Min(fire)
            /\ taken # 0 =>
                  machine_update(Machine, dt, pv)
                     = execute_transition([Machine EXCEPT !.c = c1],
                                          transitions[taken].to_state)
            /\ \A i \in 1..Len(transitions) :
                  (/\ transitions[i].condition = CanInterrupt
                   /\ transitions[i].to_state \in DOMAIN states
                   /\ states[transitions[i].to_state]
                         < Priority(current_state_name)) => taken # i

(* From a state above "attack" a CanInterrupt edge to "attack" is passed   *)
(* over and the Immediate edge behind it is taken                          *)
C34_Witness ==
    /\ current_state_name = "idle"
    /\ "attack" \in DOMAIN states /\ states["attack"] < Priority("idle")
    /\ transitions = <<Edge("idle", "attack", CanInterrupt, FALSE),
                       Edge("idle", "attack", Immediate, FALSE)>>
    /\ scan_transitions(Machine, <<>>, 1) = 2
    /\ machine_update(Machine, 0, <<>>).current_state_name = "attack"

----------------------------------------------------------------------------
(* Callbacks that call transition_to() and play() during the state         *)
(* machine's update()                                                      *)

(* C35, as claimed (checked under SpecCalling): when a callback calls      *)
(* transition_to() or play() during update(), the scan of the edges and    *)
(* the pending drain of that update() still see the state, the animation   *)
(* and the pending slot that a step without the callback leaves, so they   *)
(* decide as they would without it.                                        *)
C35_CallbacksDeferred ==
    \A dt \in MachineDTs, cb \in MachineCallbacks :
        LET stepped == [Machine EXCEPT !.c = update(Ctl, dt)]
            called == controller_update_calling(Machine, dt, cb)
        IN  /\ called.current_state_name = current_state_name
            /\ called.c.current_anim = current_anim
            /\ scan_transitions(called, <<>>, 1)
                  = scan_transitions(stepped, <<>>, 1)
            /\ (called.pending_state_name # Empty /\ is_finished(called.c))
                  <=> (stepped.pending_state_name # Empty
                          /\ is_finished(stepped.c))

----------------------------------------------------------------------------
(* One update() and the same time in two *)

(* update(dt) inputs to be split: nothing, most of a frame, a whole frame  *)
SplitDTs == {0, 2, 3}

(* Frame index, elapsed time, flags and callbacks after update(a) then     *)
(* update(b), and after update(a + b)                                      *)
InTwo(a, b) ==
    [c |-> update(update(Ctl, a), b),
     fired |-> add_callbacks(update_callbacks(Ctl, a),
                             update_callbacks(update(Ctl, a), b))]

InOne(a, b) ==
    [c |-> update(Ctl, a + b), fired |-> update_callbacks(Ctl, a + b)]

(* C36, as claimed (checked under Spec): with an animation bound,          *)
(* update(a) followed by update(b) leaves the same frame index, elapsed    *)
(* time, flags and callbacks invoked as update(a + b), for all a, b >= 0.  *)
C36_SplitAnyUpdate ==
    current_anim # Null =>
        \A a \in SplitDTs, b \in SplitDTs : InTwo(a, b) = InOne(a, b)

(* C36, amended (checked under Spec): the same at a playback speed that is *)
(* not negative and for an update(a + b) that stays below max_steps frame  *)
(* advances, except that once update(a) has finished a non-looping         *)
(* animation the elapsed time no longer counts b: then all but the elapsed *)
(* time are the same, and the elapsed time is short of the single          *)
(* update's by b times the speed.                                          *)
C36_SplitForwardUpdate ==
    (current_anim # Null /\ playback_speed >= 0) =>
        \A a \in SplitDTs, b \in SplitDTs :
            LET two == InTwo(a, b)
                one == InOne(a, b)
            IN  IF ~update_enabled(Ctl) THEN two = one
                ELSE IF update_run(Ctl, a + b).safety >= max_steps THEN TRUE
                ELSE IF update(Ctl, a).finished
                THEN /\ two.fired = one.fired
                     /\ two.c = [one.c EXCEPT !.current_frame_time
                                                = @ - b * playback_speed]
                ELSE two = one

(* A loop is part of the way through a frame: the rest of the frame and    *)
(* a whole frame more, in two updates or in one, wrap it round             *)
C36_Witness ==
    /\ update_enabled(Ctl) /\ playback_speed = 1
    /\ Anim.loop /\ Anim.frame_count = 2 /\ Uniform(Anim)
    /\ Anim.frame_duration = 3
    /\ current_frame_index = 1 /\ current_frame_time = 1
    /\ InTwo(2, 3).c.current_frame_index = 1
    /\ InTwo(2, 3).fired.on_animation_loop = 1
    /\ InTwo(2, 3) = InOne(2, 3)

----------------------------------------------------------------------------
(* What empties the pending slot, checked under SpecEdges *)

(* An unforced transition_to(target) is allowed and executes *)
Allowed(target) ==
    /\ target \in DOMAIN states
    /\ target # current_state_name
    /\ states[target] >= Priority(current_state_name)

(* C37: an unforced transition_to that is allowed and executes leaves the  *)
(* pending slot as it is, and so does an update() in which an edge fires   *)
(* while a request is pending; a filled slot is emptied only by a forced   *)
(* transition_to of a registered state and by the pending drain of an      *)
(* update() in which no edge fires and the controller is finished, which   *)
(* enters the pending state.                                               *)
C37_SlotSurvives ==
    /\ \A target \in TargetNames :
          LET m == transition_to(Machine, target, FALSE)
          IN  /\ Allowed(target) =>
                    /\ m.current_state_name = target
                    /\ m.pending_state_name = pending_state_name
              /\ pending_state_name # Empty => m.pending_state_name # Empty
    /\ \A target \in TargetNames :
          LET m == transition_to(Machine, target, TRUE)
          IN  m.pending_state_name =
                 IF target \in DOMAIN states THEN Empty
                 ELSE pending_state_name
    /\ pending_state_name # Empty =>
          \A dt \in MachineDTs, pv \in PredicateValues(transitions) :
              LET c1 == update(Ctl, dt)
                  m == machine_update(Machine, dt, pv)
              IN  IF Matching(c1, pv) # {}
                  THEN m.pending_state_name = pending_state_name
                  ELSE IF c1.finished
                  THEN /\ m.pending_state_name = Empty
                       /\ m.current_state_name = pending_state_name
                  ELSE m.pending_state_name = pending_state_name

(* A request is pending; an unforced transition_to of a state that is now  *)
(* allowed executes and leaves it pending, and once that state's animation *)
(* has finished the update() executes the old request and empties the slot *)
C37_Witness ==
    /\ pending_state_name # Empty /\ transitions = <<>>
    /\ \E target \in DOMAIN states :
          LET m == transition_to(Machine, target, FALSE)
              m2 == machine_update(m, 6, <<>>)
          IN  /\ Allowed(target) /\ m.c.playing
              /\ m.current_state_name = target
              /\ m.pending_state_name = pending_state_name
              /\ m2.c = play(update(m.c, 6), pending_state_name, TRUE)
              /\ m2.current_state_name = pending_state_name
              /\ m2.pending_state_name = Empty

----------------------------------------------------------------------------
(* Arbitration from a current state that is not registered, checked under  *)
(* SpecEdges                                                               *)

(* C38: while the current state name is empty or otherwise unregistered    *)
(* it has priority 0: an unforced transition_to of a registered target is  *)
(* executed at once iff the target's priority is at least 0, and a target  *)
(* of negative priority is stored as pending and nothing else changes.     *)
C38_UnregisteredIsZero ==
    current_state_name \notin DOMAIN states =>
        /\ get_current_priority(Machine) = 0
        /\ \A target \in DOMAIN states :
              LET m == transition_to(Machine, target, FALSE)
              IN  IF states[target] >= 0
                  THEN m = [Machine EXCEPT
                               !.current_state_name = target,
                               !.c = play(Ctl, target, TRUE)]
                  ELSE m = [Machine EXCEPT !.pending_state_name = target]

(* Before the first transition "attack", registered below 0, has been      *)
(* requested and is pending, and "idle", registered at 0, would be entered *)
C38_Witness ==
    /\ current_state_name = Empty /\ current_anim = Null
    /\ {"idle", "attack"} \subseteq DOMAIN states
    /\ states["attack"] < 0 /\ states["idle"] = 0
    /\ pending_state_name = "attack"
    /\ transition_to(Machine, "idle", FALSE).current_state_name = "idle"

----------------------------------------------------------------------------
(* play() on a paused controller, checked under Spec *)

(* C39: play(name, false) of the animation the controller is paused on     *)
(* changes nothing: the controller stays paused on the same frame with the *)
(* same elapsed time and is_playing() stays false, as it does through      *)
(* update(); resume() and play(name, true) make is_playing() true.         *)
C39_PlayWhilePaused ==
    (current_anim # Null /\ playing /\ paused) =>
        LET c == play(Ctl, current_anim_name, FALSE)
        IN  /\ c.paused /\ ~is_playing(c)
            /\ c.current_frame_index = current_frame_index
            /\ c.current_frame_time = current_frame_time
            /\ c = Ctl
            /\ \A dt \in DTs : ~is_playing(update(c, dt))
            /\ is_playing(resume(c))
            /\ is_playing(play(c, current_anim_name, TRUE))

(* The controller is paused on the last frame of a loop, short of its end *)
C39_Witness ==
    /\ current_anim # Null /\ playing /\ paused /\ ~is_playing(Ctl)
    /\ Anim.loop /\ Anim.frame_count >= 2
    /\ current_frame_index = Anim.frame_count - 1
    /\ current_frame_time > 0
    /\ play(Ctl, current_anim_name, FALSE).paused
    /\ play(Ctl, current_anim_name, TRUE).current_frame_index = 0

----------------------------------------------------------------------------
(* The lifecycle of the scenes, checked under SpecScene *)

OnStack(scene) == \E i \in 1..Len(sceneStack) : sceneStack[i] = scene

(* The scene has been on the stack and is no longer *)
Removed(scene) == lifecycleLog[scene] # <<>> /\ ~OnStack(scene)

(* onEnter, then onPause and onResume in turn, then at most one onExit *)
InLifecycleOrder(log) ==
    \A i \in 1..Len(log) :
        CASE log[i] = "onEnter" -> i = 1
          [] log[i] = "onPause" ->
                i > 1 /\ log[i - 1] \in {"onEnter", "onResume"}
          [] log[i] = "onResume" -> i > 1 /\ log[i - 1] = "onPause"
          [] log[i] = "onExit" -> i > 1 /\ i = Len(log)

(* C40, as claimed (checked under SpecScene): every scene removed from the *)
(* stack has received onExit() once, as its last call, and the calls every *)
(* scene has received are onEnter, then onPause and onResume in turn, then *)
(* onExit.                                                                 *)
C40_SceneLifecycle ==
    \A scene \in 1..Len(lifecycleLog) :
        /\ InLifecycleOrder(lifecycleLog[scene])
        /\ Removed(scene) =>
              lifecycleLog[scene][Len(lifecycleLog[scene])] = "onExit"

====
